---------------------------- MODULE Spec2Model ----------------------------
(***************************************************************************)
(* Model of the tool-relevance filter of app2.py (filter_relevant_tools)   *)
(* and of the glue around it.  Strings are sequences of one-character      *)
(* strings, so that lower(), split() and the substring test "a in b" are   *)
(* computed rather than assumed.                                           *)
(***************************************************************************)
EXTENDS Integers, Sequences, FiniteSets, TLC

(***************************************************************************)
(* State: the arguments of the invocation of filter_relevant_tools, the    *)
(* final value of its local score for every catalog entry, its local       *)
(* scored_tools list, and its return value.  first_call remembers          *)
(* the arguments and the return value of the first invocation, and whether *)
(* an invocation with other arguments has happened since.                  *)
(***************************************************************************)
VARIABLES pc, query, tools, max_tools, scores, scored_tools, result, first_call,
          app, mcp_session, openai_tools, request, iteration, sent,
          text, parsed, request_id, rpc, server,
          messages, response, n_requests, tool_log, model_api,
          chats, client_open, history, invocations,
          message_history, session_tools, mcp_sessions

(***************************************************************************)
(* Python string primitives used by the filter.                            *)
(***************************************************************************)
\* str.lower() on one character (ASCII letters).
LowerChar(c) ==
    CASE c = "A" -> "a" [] c = "B" -> "b" [] c = "C" -> "c" [] c = "D" -> "d"
      [] c = "E" -> "e" [] c = "F" -> "f" [] c = "G" -> "g" [] c = "H" -> "h"
      [] c = "I" -> "i" [] c = "J" -> "j" [] c = "K" -> "k" [] c = "L" -> "l"
      [] c = "M" -> "m" [] c = "N" -> "n" [] c = "O" -> "o" [] c = "P" -> "p"
      [] c = "Q" -> "q" [] c = "R" -> "r" [] c = "S" -> "s" [] c = "T" -> "t"
      [] c = "U" -> "u" [] c = "V" -> "v" [] c = "W" -> "w" [] c = "X" -> "x"
      [] c = "Y" -> "y" [] c = "Z" -> "z" [] OTHER -> c

\* str.lower()
Lower(s) ==
    [i \in 1..Len(s) |-> LowerChar(s[i])]

\* the characters str.split() treats as separators
IsSpace(c) ==
    c \in {" ", "\t", "\n", "\r"}

\* str.split() with no argument: maximal runs of non-space characters
RECURSIVE SplitFrom(_, _, _)
SplitFrom(s, i, cur) ==
    IF i > Len(s)
    THEN IF cur = <<>> THEN <<>> ELSE <<cur>>
    ELSE IF IsSpace(s[i])
         THEN IF cur = <<>>
              THEN SplitFrom(s, i + 1, <<>>)
              ELSE <<cur>> \o SplitFrom(s, i + 1, <<>>)
         ELSE SplitFrom(s, i + 1, Append(cur, s[i]))

Split(s) ==
    SplitFrom(s, 1, <<>>)

\* the Python test "sub in s" on strings
Contains(s, sub) ==
    \E i \in 1..(Len(s) - Len(sub) + 1) :
        \A j \in 1..Len(sub) : s[i + j - 1] = sub[j]

\* any(kw in s for kw in kws)
AnyIn(kws, s) ==
    \E n \in 1..Len(kws) : Contains(s, kws[n])

\* variant: lst[:k + 1]
SliceToOffByOne(lst, k) ==
    IF k + 1 >= 0
    THEN SubSeq(lst, 1, IF k + 1 < Len(lst) THEN k + 1 ELSE Len(lst))
    ELSE SubSeq(lst, 1, IF Len(lst) + k + 1 > 0 THEN Len(lst) + k + 1 ELSE 0)

\* variant: a limit of 0 read as "no limit" (if k: lst[:k] else lst)
SliceToZeroUnlimited(lst, k) ==
    IF k = 0
    THEN lst
    ELSE IF k > 0
         THEN SubSeq(lst, 1, IF k < Len(lst) THEN k ELSE Len(lst))
         ELSE SubSeq(lst, 1, IF Len(lst) + k > 0 THEN Len(lst) + k ELSE 0)

\* the Python slice lst[:k], for any integer k
SliceTo(lst, k) ==
    IF k >= 0
    THEN SubSeq(lst, 1, IF k < Len(lst) THEN k ELSE Len(lst))
    ELSE SubSeq(lst, 1, IF Len(lst) + k > 0 THEN Len(lst) + k ELSE 0)

\* dict.get(key, default)
Get(d, key, default) ==
    IF key \in DOMAIN d THEN d[key] ELSE default

\* variant: d.setdefault(key, default), which stores the default
DictAfterSetdefault(d, key, default) ==
    IF key \in DOMAIN d
    THEN d
    ELSE [k \in DOMAIN d \cup {key} |-> IF k = key THEN default ELSE d[k]]

\* the dict d after d.get(key, default): get stores nothing
DictAfterGet(d, key, default) ==
    d

\* the catalog list after the call: the loops only read each entry's "name"
\* and "description" with get, the sort reorders the local scored_tools list
\* and the slices build new lists
CatalogAfterCall(tools_) ==
    [i \in 1..Len(tools_) |->
        DictAfterGet(DictAfterGet(tools_[i], "name", <<>>), "description", <<>>)]

\* a JSON null in a tool record (Python None); no string equals it, since
\* every element of a string is a single character
NoneValue ==
    <<"None">>

(***************************************************************************)
(* The static tables of filter_relevant_tools.                             *)
(***************************************************************************)

category_keywords ==
    [ device |->
        <<<<"d", "e", "v", "i", "c", "e">>,
          <<"f", "i", "r", "m", "w", "a", "r", "e">>,
          <<"v", "d", "o", "m">>,
          <<"h", "a">>,
          <<"h", "a", "r", "d", "w", "a", "r", "e">>,
          <<"m", "o", "d", "e", "l">>,
          <<"c", "l", "u", "s", "t", "e", "r">>,
          <<"r", "e", "v", "i", "s", "i", "o", "n">>,
          <<"f", "o", "r", "t", "i", "g", "a", "t", "e">>,
          <<"f", "g", "t">>>>,
      policy |->
        <<<<"p", "o", "l", "i", "c", "y">>,
          <<"f", "i", "r", "e", "w", "a", "l", "l">>,
          <<"r", "u", "l", "e">>,
          <<"n", "a", "t">>,
          <<"s", "n", "a", "t">>,
          <<"d", "n", "a", "t">>,
          <<"p", "a", "c", "k", "a", "g", "e">>,
          <<"i", "n", "s", "t", "a", "l", "l">>,
          <<"c", "e", "n", "t", "r", "a", "l">>>>,
      object |->
        <<<<"a", "d", "d", "r", "e", "s", "s">>,
          <<"s", "e", "r", "v", "i", "c", "e">>,
          <<"z", "o", "n", "e">>,
          <<"v", "i", "p">>,
          <<"p", "o", "o", "l">>,
          <<"s", "c", "h", "e", "d", "u", "l", "e">>,
          <<"w", "i", "l", "d", "c", "a", "r", "d">>,
          <<"f", "q", "d", "n">>,
          <<"g", "e", "o", "g", "r", "a", "p", "h", "y">>>>,
      provision |->
        <<<<"t", "e", "m", "p", "l", "a", "t", "e">>,
          <<"p", "r", "o", "v", "i", "s", "i", "o", "n">>,
          <<"p", "r", "o", "f", "i", "l", "e">>,
          <<"c", "l", "i", " ", "t", "e", "m", "p", "l", "a", "t", "e">>,
          <<"s", "y", "s", "t", "e", "m", " ", "t", "e", "m", "p", "l", "a", "t", "e">>,
          <<"c", "e", "r", "t", "i", "f", "i", "c", "a", "t", "e">>>>,
      monitor |->
        <<<<"m", "o", "n", "i", "t", "o", "r">>,
          <<"s", "t", "a", "t", "u", "s">>,
          <<"l", "o", "g">>,
          <<"s", "t", "a", "t", "i", "s", "t", "i", "c">>,
          <<"h", "e", "a", "l", "t", "h">>,
          <<"t", "a", "s", "k">>,
          <<"c", "o", "n", "n", "e", "c", "t", "i", "v", "i", "t", "y">>,
          <<"p", "e", "r", "f", "o", "r", "m", "a", "n", "c", "e">>>>,
      adom |->
        <<<<"a", "d", "o", "m">>,
          <<"w", "o", "r", "k", "s", "p", "a", "c", "e">>,
          <<"r", "e", "v", "i", "s", "i", "o", "n">>,
          <<"l", "o", "c", "k">>,
          <<"c", "o", "m", "m", "i", "t">>,
          <<"a", "s", "s", "i", "g", "n", "m", "e", "n", "t">>,
          <<"c", "l", "o", "n", "e">>>>,
      security |->
        <<<<"w", "e", "b", " ", "f", "i", "l", "t", "e", "r">>,
          <<"i", "p", "s">>,
          <<"a", "n", "t", "i", "v", "i", "r", "u", "s">>,
          <<"d", "l", "p">>,
          <<"a", "p", "p", "l", "i", "c", "a", "t", "i", "o", "n", " ", "c", "o", "n", "t", "r", "o", "l">>,
          <<"w", "a", "f">>,
          <<"e", "m", "a", "i", "l", " ", "f", "i", "l", "t", "e", "r">>>>,
      vpn |->
        <<<<"v", "p", "n">>,
          <<"i", "p", "s", "e", "c">>,
          <<"s", "s", "l", "-", "v", "p", "n">>,
          <<"t", "u", "n", "n", "e", "l">>,
          <<"p", "h", "a", "s", "e", "1">>,
          <<"p", "h", "a", "s", "e", "2">>,
          <<"c", "o", "n", "c", "e", "n", "t", "r", "a", "t", "o", "r">>,
          <<"f", "o", "r", "t", "i", "c", "l", "i", "e", "n", "t">>>>,
      sdwan |->
        <<<<"s", "d", "-", "w", "a", "n">>,
          <<"s", "d", "w", "a", "n">>,
          <<"w", "a", "n">>,
          <<"h", "e", "a", "l", "t", "h", " ", "c", "h", "e", "c", "k">>,
          <<"s", "l", "a">>,
          <<"l", "i", "n", "k">>>>,
      fortiap |->
        <<<<"f", "o", "r", "t", "i", "a", "p">>,
          <<"w", "t", "p">>,
          <<"w", "i", "r", "e", "l", "e", "s", "s">>,
          <<"w", "i", "f", "i">>,
          <<"s", "s", "i", "d">>>>,
      fortiswitch |->
        <<<<"f", "o", "r", "t", "i", "s", "w", "i", "t", "c", "h">>,
          <<"s", "w", "i", "t", "c", "h">>,
          <<"p", "o", "r", "t">>>>,
      fortiextender |->
        <<<<"f", "o", "r", "t", "i", "e", "x", "t", "e", "n", "d", "e", "r">>,
          <<"e", "x", "t", "e", "n", "d", "e", "r">>,
          <<"l", "t", "e">>>>,
      connector |->
        <<<<"c", "o", "n", "n", "e", "c", "t", "o", "r">>,
          <<"f", "a", "b", "r", "i", "c">>,
          <<"a", "w", "s">>,
          <<"a", "z", "u", "r", "e">>,
          <<"v", "m", "w", "a", "r", "e">>,
          <<"s", "d", "n">>>>,
      script |->
        <<<<"s", "c", "r", "i", "p", "t">>,
          <<"c", "l", "i", " ", "s", "c", "r", "i", "p", "t">>,
          <<"e", "x", "e", "c", "u", "t", "e">>,
          <<"r", "u", "n">>>>,
      fortiguard |->
        <<<<"f", "o", "r", "t", "i", "g", "u", "a", "r", "d">>,
          <<"u", "p", "d", "a", "t", "e">>,
          <<"c", "o", "n", "t", "r", "a", "c", "t">>,
          <<"t", "h", "r", "e", "a", "t">>,
          <<"d", "a", "t", "a", "b", "a", "s", "e">>>>,
      internet_service |->
        <<<<"i", "n", "t", "e", "r", "n", "e", "t", " ", "s", "e", "r", "v", "i", "c", "e">>,
          <<"c", "l", "o", "u", "d", " ", "s", "e", "r", "v", "i", "c", "e">>,
          <<"s", "a", "a", "s">>>>,
      installation |->
        <<<<"i", "n", "s", "t", "a", "l", "l">>,
          <<"d", "e", "p", "l", "o", "y">>,
          <<"p", "u", "s", "h">>,
          <<"p", "r", "e", "v", "i", "e", "w">>,
          <<"v", "a", "l", "i", "d", "a", "t", "e">>>> ]

operation_types ==
    [ list |->
        <<<<"l", "i", "s", "t">>,
          <<"g", "e", "t">>,
          <<"s", "h", "o", "w">>,
          <<"v", "i", "e", "w">>,
          <<"r", "e", "t", "r", "i", "e", "v", "e">>>>,
      create |->
        <<<<"c", "r", "e", "a", "t", "e">>,
          <<"a", "d", "d">>,
          <<"n", "e", "w">>>>,
      update |->
        <<<<"u", "p", "d", "a", "t", "e">>,
          <<"m", "o", "d", "i", "f", "y">>,
          <<"e", "d", "i", "t">>,
          <<"s", "e", "t">>,
          <<"c", "h", "a", "n", "g", "e">>>>,
      delete |->
        <<<<"d", "e", "l", "e", "t", "e">>,
          <<"r", "e", "m", "o", "v", "e">>>>,
      install |->
        <<<<"i", "n", "s", "t", "a", "l", "l">>,
          <<"d", "e", "p", "l", "o", "y">>,
          <<"p", "u", "s", "h">>>>,
      execute |->
        <<<<"e", "x", "e", "c", "u", "t", "e">>,
          <<"r", "u", "n">>>> ]

\* insertion order of the operation_types dict literal
operation_order ==
    <<"list", "create", "update", "delete", "install", "execute">>

high_priority_entities ==
    <<<<"d", "e", "v", "i", "c", "e">>,
      <<"p", "o", "l", "i", "c", "y">>,
      <<"f", "i", "r", "e", "w", "a", "l", "l">>,
      <<"a", "d", "d", "r", "e", "s", "s">>,
      <<"s", "e", "r", "v", "i", "c", "e">>,
      <<"a", "d", "o", "m">>,
      <<"v", "d", "o", "m">>,
      <<"t", "e", "m", "p", "l", "a", "t", "e">>,
      <<"v", "p", "n">>,
      <<"s", "d", "w", "a", "n">>,
      <<"h", "a">>,
      <<"c", "l", "u", "s", "t", "e", "r">>>>

(***************************************************************************)
(* Scoring, as the loops of filter_relevant_tools compute it.              *)
(***************************************************************************)
\* the set built by the detection loop
detected_categories(query_lower) ==
    {category \in DOMAIN category_keywords :
        AnyIn(category_keywords[category], query_lower)}

\* variant: "elif" for the description test
RECURSIVE CategoryLoopElif(_, _, _, _)
CategoryLoopElif(order, tool_name, tool_desc, score) ==
    IF order = <<>>
    THEN score
    ELSE LET kws == category_keywords[Head(order)]
             s1  == IF AnyIn(kws, tool_name)
                    THEN score + 15
                    ELSE IF AnyIn(kws, tool_desc) THEN score + 5 ELSE score
         IN  CategoryLoopElif(Tail(order), tool_name, tool_desc, s1)

\* "for category in detected_categories": order is the order in which the
\* set is iterated
RECURSIVE CategoryLoop(_, _, _, _)
CategoryLoop(order, tool_name, tool_desc, score) ==
    IF order = <<>>
    THEN score
    ELSE LET kws == category_keywords[Head(order)]
             s1  == IF AnyIn(kws, tool_name) THEN score + 15 ELSE score
             s2  == IF AnyIn(kws, tool_desc) THEN s1 + 5 ELSE s1
         IN  CategoryLoop(Tail(order), tool_name, tool_desc, s2)

\* variant: the length test is "len(keyword) >= 2"
RECURSIVE KeywordLoopMinLen2(_, _, _, _)
KeywordLoopMinLen2(keywords, tool_name, tool_desc, score) ==
    IF keywords = <<>>
    THEN score
    ELSE LET keyword == Head(keywords)
             s1 == IF Len(keyword) >= 2 /\ Contains(tool_name, keyword)
                   THEN score + 10 ELSE score
             s2 == IF Len(keyword) >= 2 /\ Contains(tool_desc, keyword)
                   THEN s1 + 3 ELSE s1
         IN  KeywordLoopMinLen2(Tail(keywords), tool_name, tool_desc, s2)

\* "for keyword in keywords"
RECURSIVE KeywordLoop(_, _, _, _)
KeywordLoop(keywords, tool_name, tool_desc, score) ==
    IF keywords = <<>>
    THEN score
    ELSE LET keyword == Head(keywords)
             s1 == IF Len(keyword) >= 3 /\ Contains(tool_name, keyword)
                   THEN score + 10 ELSE score
             s2 == IF Len(keyword) >= 3 /\ Contains(tool_desc, keyword)
                   THEN s1 + 3 ELSE s1
         IN  KeywordLoop(Tail(keywords), tool_name, tool_desc, s2)

\* "for op_type, op_keywords in operation_types.items()"
\* variant: the operation class is not looked up in the query
RECURSIVE OperationLoopAnyQuery(_, _, _, _)
OperationLoopAnyQuery(ops, query_lower, tool_name, score) ==
    IF ops = <<>>
    THEN score
    ELSE LET op_keywords == operation_types[Head(ops)]
             s1 == IF AnyIn(op_keywords, tool_name)
                   THEN score + 8 ELSE score
         IN  OperationLoopAnyQuery(Tail(ops), query_lower, tool_name, s1)

\* "for op_type, op_keywords in operation_types.items()"
RECURSIVE OperationLoop(_, _, _, _)
OperationLoop(ops, query_lower, tool_name, score) ==
    IF ops = <<>>
    THEN score
    ELSE LET op_keywords == operation_types[Head(ops)]
             s1 == IF AnyIn(op_keywords, query_lower) /\ AnyIn(op_keywords, tool_name)
                   THEN score + 8 ELSE score
         IN  OperationLoop(Tail(ops), query_lower, tool_name, s1)

\* "for entity in high_priority_entities"
RECURSIVE EntityLoop(_, _, _, _)
EntityLoop(entities, query_lower, tool_name, score) ==
    IF entities = <<>>
    THEN score
    ELSE LET entity == Head(entities)
             s1 == IF Contains(query_lower, entity) /\ Contains(tool_name, entity)
                   THEN score + 12 ELSE score
         IN  EntityLoop(Tail(entities), query_lower, tool_name, s1)

\* the body of "for tool in tools" up to the final value of score
ScoreTool(query_lower, keywords, order, tool) ==
    LET tool_name == Lower(Get(tool, "name", <<>>))
        tool_desc == Lower(Get(tool, "description", <<>>))
        s1 == CategoryLoop(order, tool_name, tool_desc, 0)
        s2 == KeywordLoop(keywords, tool_name, tool_desc, s1)
        s3 == OperationLoop(operation_order, query_lower, tool_name, s2)
    IN  EntityLoop(high_priority_entities, query_lower, tool_name, s3)

\* the final value of score in every iteration of "for tool in tools", by
\* catalog position
ToolScores(query_lower, keywords, order, tools_) ==
    [i \in 1..Len(tools_) |->
        ScoreTool(query_lower, keywords, order, tools_[i])]

\* variant: a second append for tools that reach 15 points
RECURSIVE ScoreLoopAppendTwice(_, _, _)
ScoreLoopAppendTwice(sc, i, scored) ==
    IF i > Len(sc)
    THEN scored
    ELSE LET once == IF sc[i] > 0 THEN Append(scored, <<sc[i], i>>) ELSE scored
         IN  ScoreLoopAppendTwice(sc, i + 1,
                                  IF sc[i] >= 15 THEN Append(once, <<sc[i], i>>) ELSE once)

\* variant: the test is "score >= 0"
RECURSIVE ScoreLoopKeepZero(_, _, _)
ScoreLoopKeepZero(sc, i, scored) ==
    IF i > Len(sc)
    THEN scored
    ELSE ScoreLoopKeepZero(sc, i + 1,
                           IF sc[i] >= 0 THEN Append(scored, <<sc[i], i>>) ELSE scored)

\* variant: a tool whose name was seen earlier in the catalog is skipped
RECURSIVE ScoreLoopDedup(_, _, _)
ScoreLoopDedup(sc, i, scored) ==
    IF i > Len(sc)
    THEN scored
    ELSE ScoreLoopDedup(sc, i + 1,
                        IF /\ sc[i] > 0
                           /\ \A j \in 1..(i - 1) :
                                 Get(tools[j], "name", <<>>) # Get(tools[i], "name", <<>>)
                        THEN Append(scored, <<sc[i], i>>) ELSE scored)

\* "if score > 0: scored_tools.append((score, tool))" over the iterations of
\* "for tool in tools".  A tool reference is its position in the catalog.
ScoreLoop(sc, i, scored) ==
    scored \o SelectSeq([k \in 1..(Len(sc) - i + 1) |-> <<sc[k + i - 1], k + i - 1>>],
                        LAMBDA entry : entry[1] > 0)

\* variant: equal keys end up in reverse order (sort ascending, then reverse)
RECURSIVE InsertReverseTies(_, _)
InsertReverseTies(sorted, x) ==
    IF sorted = <<>>
    THEN <<x>>
    ELSE IF Head(sorted)[1] > x[1]
         THEN <<Head(sorted)>> \o InsertReverseTies(Tail(sorted), x)
         ELSE <<x>> \o sorted

\* variant: reverse=True is missing, the sort is ascending
RECURSIVE InsertAscending(_, _)
InsertAscending(sorted, x) ==
    IF sorted = <<>>
    THEN <<x>>
    ELSE IF Head(sorted)[1] <= x[1]
         THEN <<Head(sorted)>> \o InsertAscending(Tail(sorted), x)
         ELSE <<x>> \o sorted

\* list.sort(reverse=True, key=lambda x: x[0]): descending by score, and stable
\* (entries with equal keys keep their order, also with reverse=True)
\* x goes in front of the first entry with a smaller key
InsertReverse(sorted, x) ==
    LET smaller == {j \in 1..Len(sorted) : sorted[j][1] < x[1]}
        kept    == IF smaller = {}
                   THEN Len(sorted)
                   ELSE (CHOOSE j \in smaller : \A m \in smaller : j <= m) - 1
    IN  SubSeq(sorted, 1, kept) \o <<x>> \o SubSeq(sorted, kept + 1, Len(sorted))

\* the entries of lst are inserted into sorted one after the other: those of
\* the first half of lst, and when these are in, those of the second half
RECURSIVE SortReverse(_, _)
SortReverse(lst, sorted) ==
    IF lst = <<>>
    THEN sorted
    ELSE IF Len(lst) = 1
         THEN InsertReverse(sorted, lst[1])
         ELSE LET half  == Len(lst) \div 2
                  first == SortReverse(SubSeq(lst, 1, half), sorted)
              IN  IF Len(first) >= Len(sorted)
                  THEN SortReverse(SubSeq(lst, half + 1, Len(lst)), first)
                  ELSE first

\* variant: scored_tools is not reset, the list of the previous invocation
\* is appended to
SortedScoredToolsStale(sc) ==
    SortReverse(ScoreLoop(sc, 1, scored_tools), <<>>)

\* the scored_tools list after the sort
SortedScoredTools(sc) ==
    SortReverse(ScoreLoop(sc, 1, <<>>), <<>>)

\* variant: the fallback looks for "list" only
default_tools_list_only(tools_) ==
    SelectSeq([i \in 1..Len(tools_) |-> i],
              LAMBDA i : AnyIn(<<<<"l", "i", "s", "t">>>>,
                               Lower(Get(tools_[i], "name", <<>>))))

\* variant: the fallback tests the name as it is, without lower()
default_tools_case_sensitive(tools_) ==
    SelectSeq([i \in 1..Len(tools_) |-> i],
              LAMBDA i : AnyIn(<<<<"l", "i", "s", "t">>, <<"g", "e", "t">>>>,
                               Get(tools_[i], "name", <<>>)))

\* variant: the fallback returns the catalog itself
default_tools_all(tools_) ==
    [i \in 1..Len(tools_) |-> i]

\* the fallback list comprehension
default_tools(tools_) ==
    SelectSeq([i \in 1..Len(tools_) |-> i],
              LAMBDA i : AnyIn(<<<<"l", "i", "s", "t">>, <<"g", "e", "t">>>>,
                               Lower(Get(tools_[i], "name", <<>>))))

\* the two return statements, given the sorted scored_tools
ReturnValue(scored, tools_, max_tools_) ==
    IF scored = <<>>
    THEN SliceTo(default_tools(tools_), max_tools_)
    ELSE LET top == SliceTo(scored, max_tools_)
         IN  [n \in 1..Len(top) |-> top[n][2]]

(***************************************************************************)
(* Inputs.                                                                 *)
(***************************************************************************)
MaxCatalog == 3
MaxTools == 3

\* tool records as the MCP server lists them; "description" and "inputSchema"
\* are optional keys
ToolPool ==
    << [name |-> <<"l", "i", "s", "t", "_", "d", "e", "v", "i", "c", "e", "s">>],
       [name |-> <<"c", "r", "e", "a", "t", "e", "_", "p", "o", "l", "i", "c", "y">>],
       [name |-> <<"l", "i", "s", "t", "_", "p", "o", "l", "i", "c", "y", "_",
                   "p", "a", "c", "k", "a", "g", "e", "s">>],
       [name |-> <<"G", "e", "t", "_", "D", "e", "v", "i", "c", "e", "_",
                   "S", "t", "a", "t", "u", "s">>,
        description |-> <<>>,
        inputSchema |-> "object"],
       [name |-> <<"I", "n", "s", "t", "a", "l", "l", "_", "P", "a", "c", "k", "a", "g", "e">>,
        description |-> <<"I", "n", "s", "t", "a", "l", "l", " ", "a", " ",
                          "p", "o", "l", "i", "c", "y", " ",
                          "p", "a", "c", "k", "a", "g", "e", " ", "t", "o", " ", "a", " ",
                          "d", "e", "v", "i", "c", "e">>,
        inputSchema |-> "object"] >>

\* a catalog of write operations only: create_address, create_vpn
WriteOnlyCatalog ==
    << [name |-> <<"c", "r", "e", "a", "t", "e", "_", "a", "d", "d", "r", "e", "s", "s">>,
        description |-> <<>>],
       [name |-> <<"c", "r", "e", "a", "t", "e", "_", "v", "p", "n">>,
        description |-> <<>>] >>

\* user messages: "list all devices", "", "show me something unrelated to
\* anything", "List  Devices<TAB>in HA", "install policy package package"
Queries ==
    { <<"l", "i", "s", "t", " ", "a", "l", "l", " ", "d", "e", "v", "i", "c", "e", "s">>,
      <<>>,
      <<"s", "h", "o", "w", " ", "m", "e", " ", "s", "o", "m", "e", "t", "h", "i", "n", "g", " ",
        "u", "n", "r", "e", "l", "a", "t", "e", "d", " ", "t", "o", " ",
        "a", "n", "y", "t", "h", "i", "n", "g">>,
      <<"L", "i", "s", "t", " ", " ", "D", "e", "v", "i", "c", "e", "s", "\t", "i", "n", " ", "H", "A">>,
      <<"i", "n", "s", "t", "a", "l", "l", " ", "p", "o", "l", "i", "c", "y", " ",
        "p", "a", "c", "k", "a", "g", "e", " ", "p", "a", "c", "k", "a", "g", "e">> }

\* catalogs: every sequence of at most MaxCatalog tools of the pool
\* (repetitions included), and the write-only catalog
Catalogs ==
    UNION {[1..n -> {ToolPool[p] : p \in 1..Len(ToolPool)}] : n \in 0..MaxCatalog}
        \cup {WriteOnlyCatalog}

\* the catalog a chat session caches in all_tools
SessionCatalog ==
    ToolPool

\* the orders in which a set can be iterated
Orders(S) ==
    {o \in [1..Cardinality(S) -> S] :
        \A a, b \in 1..Cardinality(S) : o[a] = o[b] => a = b}

\* catalogs in which the server sent a null description or a null name
MalformedCatalogs ==
    { << [name |-> ToolPool[1].name, description |-> NoneValue] >>,
      << ToolPool[1], [name |-> NoneValue] >> }

\* the arguments of a direct call: prefixes of the pool, the write-only
\* catalog and the malformed catalogs, with limits below zero as well
MaxNegative == 1

ArgCatalogs ==
    {SubSeq(ToolPool, 1, n) : n \in 0..MaxCatalog}
        \cup {WriteOnlyCatalog} \cup MalformedCatalogs

vars == <<pc, query, tools, max_tools, scores, scored_tools, result, first_call,
          app, mcp_session, openai_tools, request, iteration, sent,
          text, parsed, request_id, rpc, server,
          messages, response, n_requests, tool_log, model_api,
          chats, client_open, history, invocations,
          message_history, session_tools, mcp_sessions>>

\* the state of the MCP client: the argument and the return value of
\* parse_sse_response, the client's request_id counter, its send_request
\* calls, and the answers the server gives to the requests, by request id
mcpvars == <<text, parsed, request_id, rpc, server>>

\* parse_sse_response has not returned
NotParsed ==
    [returned |-> FALSE]

\* no MCP client is in use
NoMcp ==
    /\ text = <<>>
    /\ parsed = NotParsed
    /\ request_id = 0
    /\ rpc = <<>>
    /\ server = <<>>

\* what app2's on_message keeps while it handles a message: the conversation
\* it sends to the model API, the last response of the model API, the number
\* of requests made, the calls made with call_tool; model_api is the set of
\* responses the model API may give
loopvars == <<messages, response, n_requests, tool_log, model_api>>

NoResponse ==
    [received |-> FALSE]

NoLoop ==
    /\ messages = <<>>
    /\ response = NoResponse
    /\ n_requests = 0
    /\ tool_log = <<>>
    /\ model_api = {}

\* the chat sessions of the app2 process, each with the position of its
\* on_chat_start and on_chat_end handlers; whether the client mcp_session
\* refers to is open; and whether an on_chat_end has completed, whether an
\* on_chat_start has set mcp_session since, how the last close ended, and
\* whether another chat has run a step of its on_chat_start after the
\* on_chat_start of chat 1 began
chatvars == <<chats, client_open, history>>

NoHistory ==
    [ended |-> FALSE, started_since |-> FALSE, close |-> "none",
     started_later |-> FALSE]

NoChats ==
    /\ chats = <<>>
    /\ client_open = FALSE
    /\ history = NoHistory

\* the invocations of filter_relevant_tools that are under way at the same
\* time, each with its arguments and its local variables
concvars == <<invocations>>

NoInvocations ==
    invocations = <<>>

\* the user session of notes_app_chainlit: "message_history", the conversation
\* kept from one message to the next, and the dictionaries "mcp_tools"
\* (session_tools) and "mcp_sessions", each as the sequence of its items in
\* the order the keys were first stored
notesvars == <<message_history, session_tools, mcp_sessions>>

NoNotes ==
    /\ message_history = <<>>
    /\ session_tools = <<>>
    /\ mcp_sessions = <<>>

\* the state of the chat application around the filter: which script runs,
\* the MCP connection, the function declarations built for the model API, the
\* tools argument of the latest request to the model API, the tool-call
\* round, and the messages sent to the user
appvars == <<app, mcp_session, openai_tools, request, iteration, sent>>

\* no request has been sent to the model API
NoRequest ==
    [sent |-> FALSE]

\* no chat handler has run
NoChat ==
    /\ app = "app2"
    /\ mcp_session = "none"
    /\ openai_tools = <<>>
    /\ request = NoRequest
    /\ iteration = 0
    /\ sent = <<>>

NoCall ==
    [called |-> FALSE]

\* variant: indexing the first catalog entry before the loop
RaisesOnEmptyCatalog(query_, tools_, max_tools_) ==
    \/ tools_ = <<>>
    \/ \E i \in 1..Len(tools_) :
          \/ Get(tools_[i], "name", <<>>) = NoneValue
          \/ Get(tools_[i], "description", <<>>) = NoneValue

\* variant: indexing the first keyword of the query
RaisesOnEmptyQuery(query_, tools_, max_tools_) ==
    \/ Split(Lower(query_)) = <<>>
    \/ \E i \in 1..Len(tools_) :
          \/ Get(tools_[i], "name", <<>>) = NoneValue
          \/ Get(tools_[i], "description", <<>>) = NoneValue

\* the invocation raises: tool.get(key, "") hands back the None stored under
\* a present key, and None has no lower(); nothing else in the function can
\* raise on a string query, a list of dicts and an integer limit
Raises(query_, tools_, max_tools_) ==
    \E i \in 1..Len(tools_) :
        \/ Get(tools_[i], "name", <<>>) = NoneValue
        \/ Get(tools_[i], "description", <<>>) = NoneValue

\* one invocation, leaving the scores in sc, the final scored_tools list in
\* scored and the return value in res; the detected_categories set is
\* iterated in whatever order the runtime picks
filter_relevant_tools(query_, tools_, max_tools_, sc, scored, res) ==
    LET query_lower == Lower(query_)
        keywords    == Split(query_lower)
    IN  \E order \in Orders(detected_categories(query_lower)) :
            /\ sc = ToolScores(query_lower, keywords, order, tools_)
            /\ scored = SortedScoredTools(sc)
            /\ res = ReturnValue(scored, tools_, max_tools_)

\* a single invocation on arbitrary arguments
Init ==
    /\ pc = "ready"
    /\ query \in Queries
    /\ tools \in Catalogs
    /\ max_tools \in 0..MaxTools
    /\ scores = <<>>
    /\ scored_tools = <<>>
    /\ result = <<>>
    /\ first_call = NoCall
    /\ NoChat
    /\ NoMcp
    /\ NoLoop
    /\ NoChats
    /\ NoInvocations
    /\ NoNotes

Call ==
    /\ pc = "ready"
    /\ IF Raises(query, tools, max_tools)
       THEN /\ pc' = "raised"
            /\ UNCHANGED <<scores, scored_tools, result>>
            /\ tools' = tools
       ELSE /\ filter_relevant_tools(query, tools, max_tools,
                                     scores', scored_tools', result')
            /\ pc' = "returned"
            /\ tools' = CatalogAfterCall(tools)
    /\ UNCHANGED <<query, max_tools, first_call>>
    /\ UNCHANGED appvars
    /\ UNCHANGED mcpvars
    /\ UNCHANGED loopvars
    /\ UNCHANGED chatvars
    /\ UNCHANGED concvars
    /\ UNCHANGED notesvars

Next ==
    Call

Spec ==
    Init /\ [][Next]_vars

\* a single invocation on arguments a caller may get wrong: a limit below
\* zero, a catalog with null fields
InitArgs ==
    /\ pc = "ready"
    /\ query \in Queries
    /\ tools \in ArgCatalogs
    /\ max_tools \in (0 - MaxNegative)..MaxTools
    /\ scores = <<>>
    /\ scored_tools = <<>>
    /\ result = <<>>
    /\ first_call = NoCall
    /\ NoChat
    /\ NoMcp
    /\ NoLoop
    /\ NoChats
    /\ NoInvocations
    /\ NoNotes

SpecArgs ==
    InitArgs /\ [][Next]_vars

\* a chat session: the catalog is cached once, every message invokes the filter
InitSession ==
    /\ pc = "ready"
    /\ query = <<>>
    /\ tools = SessionCatalog
    /\ max_tools = 0
    /\ scores = <<>>
    /\ scored_tools = <<>>
    /\ result = <<>>
    /\ first_call = NoCall
    /\ NoChat
    /\ NoMcp
    /\ NoLoop
    /\ NoChats
    /\ NoInvocations
    /\ NoNotes

Invoke(q, k) ==
    /\ ~Raises(q, tools, k)
    /\ filter_relevant_tools(q, tools, k, scores', scored_tools', result')
    /\ query' = q
    /\ max_tools' = k
    /\ pc' = "returned"
    /\ first_call' =
          IF ~first_call.called
          THEN [called |-> TRUE, query |-> q, max_tools |-> k,
                result |-> result', interleaved |-> FALSE]
          ELSE IF q = first_call.query /\ k = first_call.max_tools
               THEN first_call
               ELSE [first_call EXCEPT !.interleaved = TRUE]
    /\ tools' = CatalogAfterCall(tools)
    /\ UNCHANGED appvars
    /\ UNCHANGED mcpvars
    /\ UNCHANGED loopvars
    /\ UNCHANGED chatvars
    /\ UNCHANGED concvars
    /\ UNCHANGED notesvars

NextSession ==
    \E q \in Queries, k \in 0..MaxTools : Invoke(q, k)

SpecSession ==
    InitSession /\ [][NextSession]_vars

(***************************************************************************)
(* The chat handlers that forward tools to the model API: on_message of    *)
(* app2.py, main of app3.py, on_mcp_connect and main of                    *)
(* notes_app_chainlit.py.  One user message is handled per behaviour;     *)
(* SpecNotes follows a notes_app_chainlit chat over several messages.      *)
(***************************************************************************)
MaxToolsPerRequest == 100
DescriptionLimit == 1000
max_iterations == 5

\* how far a catalog or a description goes beyond the limits, and the number
\* of tool-call rounds of a loop the code does not bound
MaxOver == 1
MaxRounds == 2

\* a tool whose description is n characters long
LongTool(n) ==
    [name |-> <<"g", "e", "t", "_", "r", "e", "p", "o", "r", "t">>,
     description |-> [i \in 1..n |-> "x"],
     inputSchema |-> "object"]

\* a catalog of n tools, all of them read tools of the pool
BigCatalog(n) ==
    LET read == <<ToolPool[1], ToolPool[3], ToolPool[4]>>
    IN  [i \in 1..n |-> read[((i - 1) % Len(read)) + 1]]

\* the catalogs a server lists: none, around MaxToolsPerRequest tools, a tool
\* with a description around DescriptionLimit characters, null fields
AppCatalogs ==
    {<<>>, WriteOnlyCatalog}
        \cup {BigCatalog(n) :
                 n \in (MaxToolsPerRequest - 1)..(MaxToolsPerRequest + MaxOver)}
        \cup {<<ToolPool[2], LongTool(n)>> :
                 n \in (DescriptionLimit - 1)..(DescriptionLimit + MaxOver)}
        \cup MalformedCatalogs

\* attribute access on a Tool object of the MCP SDK: an optional field that
\* the server left out is None
Attr(tool, key) ==
    IF key \in DOMAIN tool THEN tool[key] ELSE NoneValue

\* variant: the declarations are built from the whole catalog
openai_tools_app2_unfiltered(relevant_tools, tools_) ==
    [n \in 1..Len(tools_) |->
        [name        |-> Get(tools_[n], "name", <<>>),
         description |-> SliceTo(Get(tools_[n], "description", <<>>),
                                 DescriptionLimit),
         parameters  |-> Get(tools_[n], "inputSchema", "{}")]]

\* app2: "for tool in relevant_tools: openai_tools.append(...)"; relevant_tools
\* holds positions in the catalog tools_
openai_tools_app2(relevant_tools, tools_) ==
    [n \in 1..Len(relevant_tools) |->
        LET tool == tools_[relevant_tools[n]]
        IN  [name        |-> Get(tool, "name", <<>>),
             description |-> SliceTo(Get(tool, "description", <<>>),
                                     DescriptionLimit),
             parameters  |-> Get(tool, "inputSchema", "{}")]]

\* app3: "for tool in mcp_tools: openai_tools.append(...)"
openai_tools_app3(mcp_tools) ==
    [n \in 1..Len(mcp_tools) |->
        [name        |-> Attr(mcp_tools[n], "name"),
         description |-> Attr(mcp_tools[n], "description"),
         parameters  |-> Attr(mcp_tools[n], "inputSchema")]]

\* notes_app_chainlit: the list comprehension of on_mcp_connect
openai_tools_notes(tools_) ==
    [n \in 1..Len(tools_) |->
        [name        |-> Attr(tools_[n], "name"),
         description |-> Attr(tools_[n], "description"),
         parameters  |-> Attr(tools_[n], "inputSchema")]]

\* chat.completions.create(..., tools=declarations if declarations else None)
Request(declarations) ==
    [sent |-> TRUE, tools_given |-> declarations # <<>>, tools |-> declarations]

\* chat.completions.create(...) without a tools argument
RequestWithoutTools ==
    [sent |-> TRUE, tools_given |-> FALSE, tools |-> <<>>]

\* the responses of the model API: the request raised, or a response with
\* content or not and with tool calls, each written as what happens when it is
\* executed: "ok", "fail" (call_tool raises) or "bad_json" (its arguments are
\* not JSON)
ModelResponse(tool_calls, content) ==
    [raised |-> FALSE, tool_calls |-> tool_calls, content |-> content]

RequestRaised ==
    [raised |-> TRUE, tool_calls |-> <<>>, content |-> FALSE]

SimpleResponses ==
    {RequestRaised}
        \cup {ModelResponse(calls, content) :
                 calls \in {<<>>, <<"ok">>}, content \in BOOLEAN}

Responses ==
    SimpleResponses
        \cup {ModelResponse(calls, FALSE) :
                 calls \in {<<"fail">>, <<"fail", "ok">>, <<"ok", "fail">>,
                            <<"bad_json">>, <<"ok", "bad_json">>}}

\* the response to request n as on_message holds it: the ids of its tool calls
Received(r, n) ==
    [received |-> TRUE,
     tool_calls |-> [j \in 1..Len(r.tool_calls) |-> <<n, j>>],
     content |-> r.content]

AssistantMessage(ids) ==
    [role |-> "assistant", tool_calls |-> ids]

ToolMessage(id, error) ==
    [role |-> "tool", tool_call_id |-> id, error |-> error]

\* variant: "if not all_tools"
not_all_tools(mcp_session_, all_tools) ==
    all_tools = <<>>

\* "if not mcp_session"
not_mcp_session(mcp_session_, all_tools) ==
    mcp_session_ = "none"

\* variant: "iteration <= max_iterations"
LoopConditionOffByOne(tool_calls, iteration_) ==
    tool_calls # <<>> /\ iteration_ <= max_iterations

\* "while response.choices[0].message.tool_calls and iteration < max_iterations"
LoopCondition(tool_calls, iteration_) ==
    tool_calls # <<>> /\ iteration_ < max_iterations

\* variant: the round is left at the first call that fails
RECURSIVE ToolCallsLoopBreak(_, _, _, _, _)
ToolCallsLoopBreak(calls, ids, j, st, usable) ==
    IF j > Len(calls)
    THEN st
    ELSE IF calls[j] = "bad_json"
         THEN [st EXCEPT !.raised = TRUE]
         ELSE LET ok == calls[j] = "ok" /\ usable
                  after ==
                      [st EXCEPT
                         !.sent = Append(st.sent, "executing")
                                      \o (IF ok THEN <<>> ELSE <<"tool_error">>),
                         !.tool_log = Append(st.tool_log, [id |-> ids[j], ok |-> ok]),
                         !.messages = Append(st.messages, ToolMessage(ids[j], ~ok))]
              IN  IF ok THEN ToolCallsLoopBreak(calls, ids, j + 1, after, usable)
                  ELSE after

\* "for tool_call in assistant_message.tool_calls", from call j on; usable says
\* whether mcp_session refers to an open client
RECURSIVE ToolCallsLoop(_, _, _, _, _)
ToolCallsLoop(calls, ids, j, st, usable) ==
    IF j > Len(calls)
    THEN st
    ELSE IF calls[j] = "bad_json"
         THEN [st EXCEPT !.raised = TRUE]
         ELSE LET ok == calls[j] = "ok" /\ usable
              IN  ToolCallsLoop(calls, ids, j + 1,
                      [st EXCEPT
                         !.sent = Append(st.sent, "executing")
                                      \o (IF ok THEN <<>> ELSE <<"tool_error">>),
                         !.tool_log = Append(st.tool_log, [id |-> ids[j], ok |-> ok]),
                         !.messages = Append(st.messages, ToolMessage(ids[j], ~ok))],
                      usable)

\* the names of the MCP connections of a notes_app_chainlit chat, and the
\* number of user messages of a chat that are followed
ConnectionNames == {"a", "b"}
MaxMessages == 2

\* a tool call of a response to notes_app_chainlit, written as what happens
\* when it is executed: whether json.loads accepts its arguments, and the
\* connections on whose session call_tool returns (on the others it raises)
ToolCall(json_ok, returns) ==
    [json |-> json_ok, returns |-> returns]

BadJson ==
    ToolCall(FALSE, {})

SimpleNotesResponses ==
    {RequestRaised, ModelResponse(<<ToolCall(TRUE, {"a"})>>, FALSE)}
        \cup {ModelResponse(<<>>, content) : content \in BOOLEAN}

NotesResponses ==
    SimpleNotesResponses
        \cup {ModelResponse(<<ToolCall(TRUE, names)>>, FALSE) :
                 names \in SUBSET ConnectionNames}
        \cup {ModelResponse(<<BadJson>>, FALSE),
              ModelResponse(<<ToolCall(TRUE, {}), ToolCall(TRUE, {"b"})>>, FALSE),
              ModelResponse(<<ToolCall(TRUE, {"a"}), BadJson>>, FALSE)}

\* d[key] = value on a dictionary kept as the sequence of its items: a key
\* that is there keeps its place, a new key goes to the end
DictSet(d, key, value) ==
    IF \E k \in 1..Len(d) : d[k].key = key
    THEN [k \in 1..Len(d) |->
             IF d[k].key = key THEN [key |-> key, value |-> value] ELSE d[k]]
    ELSE Append(d, [key |-> key, value |-> value])

\* d.pop(key, None)
DictPop(d, key) ==
    SelectSeq(d, LAMBDA item : item.key # key)

\* "for connection_tools in mcp_tools.values(): all_tools.extend(connection_tools)"
RECURSIVE AllTools(_)
AllTools(d) ==
    IF d = <<>> THEN <<>> ELSE Head(d).value \o AllTools(Tail(d))

\* the history the chat starts with (on_chat_start, lines 14-16) and the
\* messages main appends to it
SystemMessage ==
    [role |-> "system"]

UserMessage ==
    [role |-> "user"]

\* "for session_name, session in mcp_sessions.items()", from item k on: the
\* calls made, and whether result_text was set
RECURSIVE SessionsLoop(_, _, _, _, _)
SessionsLoop(sessions, call, id, k, log) ==
    IF k > Len(sessions)
    THEN [log |-> log, found |-> FALSE]
    ELSE IF sessions[k].value \in call.returns
         THEN [log |-> Append(log, [id |-> id, session |-> sessions[k].key,
                                    ok |-> TRUE]),
               found |-> TRUE]
         ELSE SessionsLoop(sessions, call, id, k + 1,
                           Append(log, [id |-> id, session |-> sessions[k].key,
                                        ok |-> FALSE]))

\* "for tool_call in response_message.tool_calls", from call j on
RECURSIVE NotesToolCallsLoop(_, _, _, _, _)
NotesToolCallsLoop(calls, ids, j, st, sessions) ==
    IF j > Len(calls)
    THEN st
    ELSE IF ~calls[j].json
         THEN [st EXCEPT !.raised = TRUE]
         ELSE LET tried == SessionsLoop(sessions, calls[j], ids[j], 1, <<>>)
              IN  NotesToolCallsLoop(calls, ids, j + 1,
                      [st EXCEPT
                         !.sent = Append(st.sent, "calling"),
                         !.tool_log = st.tool_log \o tried.log,
                         !.message_history =
                             Append(st.message_history,
                                    ToolMessage(ids[j], ~tried.found))],
                      sessions)

\* one of the scripts runs; its chat has started, with or without a connection
InitApps ==
    /\ pc = "idle"
    /\ app \in {"app2", "app3", "notes_app"}
    /\ mcp_session \in {"connected", "none"}
    /\ tools \in AppCatalogs
    /\ query = <<>>
    /\ max_tools = 0
    /\ scores = <<>>
    /\ scored_tools = <<>>
    /\ result = <<>>
    /\ first_call = NoCall
    /\ openai_tools = <<>>
    /\ request = NoRequest
    /\ iteration = 0
    /\ sent = <<>>
    /\ NoMcp
    /\ messages = <<>>
    /\ response = NoResponse
    /\ n_requests = 0
    /\ tool_log = <<>>
    /\ model_api = IF app = "notes_app" THEN SimpleNotesResponses
                   ELSE SimpleResponses
    /\ chats = <<>>
    /\ client_open = (mcp_session = "connected")
    /\ history = NoHistory
    /\ NoInvocations
    /\ message_history = IF app = "notes_app" THEN <<SystemMessage>> ELSE <<>>
    /\ session_tools = <<>>
    /\ mcp_sessions = <<>>

\* one message to an app2 chat with a small catalog, and every response of
\* Responses from the model API
InitLoop ==
    /\ pc = "idle"
    /\ app = "app2"
    /\ mcp_session = "connected"
    /\ tools = SessionCatalog
    /\ query = <<>>
    /\ max_tools = 0
    /\ scores = <<>>
    /\ scored_tools = <<>>
    /\ result = <<>>
    /\ first_call = NoCall
    /\ openai_tools = <<>>
    /\ request = NoRequest
    /\ iteration = 0
    /\ sent = <<>>
    /\ NoMcp
    /\ messages = <<>>
    /\ response = NoResponse
    /\ n_requests = 0
    /\ tool_log = <<>>
    /\ model_api = Responses
    /\ chats = <<>>
    /\ client_open = TRUE
    /\ history = NoHistory
    /\ NoInvocations
    /\ NoNotes

\* app2 on_message, up to and including the initial request to the model API
on_message(q) ==
    /\ app = "app2"
    /\ pc = "idle"
    /\ IF not_mcp_session(mcp_session, tools)
       THEN /\ sent' = <<"not_connected">>
            /\ pc' = "done"
            /\ UNCHANGED <<query, tools, max_tools, scores, scored_tools, result,
                           openai_tools, request, iteration, messages, n_requests>>
       ELSE IF Raises(q, tools, MaxToolsPerRequest)
            THEN /\ sent' = <<"error">>
                 /\ pc' = "done"
                 /\ query' = q
                 /\ max_tools' = MaxToolsPerRequest
                 /\ UNCHANGED <<tools, scores, scored_tools, result,
                                openai_tools, request, iteration, messages,
                                n_requests>>
            ELSE /\ filter_relevant_tools(q, tools, MaxToolsPerRequest,
                                          scores', scored_tools', result')
                 /\ query' = q
                 /\ max_tools' = MaxToolsPerRequest
                 /\ tools' = CatalogAfterCall(tools)
                 /\ openai_tools' = openai_tools_app2(result', tools)
                 /\ messages' = <<[role |-> "system"], [role |-> "user"]>>
                 /\ request' = Request(openai_tools')
                 /\ n_requests' = 1
                 /\ iteration' = 0
                 /\ sent' = <<>>
                 /\ pc' = "awaiting"
    /\ UNCHANGED <<app, mcp_session, first_call>>
    /\ UNCHANGED mcpvars
    /\ UNCHANGED <<response, tool_log, model_api>>
    /\ UNCHANGED chatvars
    /\ UNCHANGED concvars
    /\ UNCHANGED notesvars

\* app2 on_message from a response of the model API on: the request raised, or
\* the response r was received; a round of tool calls and the next request, or
\* the final message
on_message_response(r) ==
    /\ app = "app2"
    /\ pc = "awaiting"
    /\ r \in model_api
    /\ IF r.raised
       THEN /\ sent' = Append(sent, "error")
            /\ pc' = "done"
            /\ UNCHANGED <<request, iteration, messages, response, n_requests,
                           tool_log>>
       ELSE /\ response' = Received(r, n_requests)
            /\ IF LoopCondition(r.tool_calls, iteration)
               THEN LET round == ToolCallsLoop(
                                     r.tool_calls, response'.tool_calls, 1,
                                     [messages |-> Append(messages,
                                                     AssistantMessage(response'.tool_calls)),
                                      tool_log |-> tool_log,
                                      sent |-> sent,
                                      raised |-> FALSE],
                                     mcp_session # "none" /\ client_open)
                    IN  /\ iteration' = iteration + 1
                        /\ messages' = round.messages
                        /\ tool_log' = round.tool_log
                        /\ IF round.raised
                           THEN /\ sent' = Append(round.sent, "error")
                                /\ pc' = "done"
                                /\ UNCHANGED <<request, n_requests>>
                           ELSE /\ sent' = round.sent
                                /\ request' = Request(openai_tools)
                                /\ n_requests' = n_requests + 1
                                /\ pc' = "awaiting"
               ELSE /\ sent' = sent
                           \o (IF iteration >= max_iterations /\ r.tool_calls # <<>>
                               THEN <<"iteration_limit">> ELSE <<>>)
                           \o (IF r.content THEN <<"final">> ELSE <<"completed">>)
                    /\ pc' = "done"
                    /\ UNCHANGED <<request, iteration, messages, n_requests,
                                   tool_log>>
    /\ UNCHANGED <<query, tools, max_tools, scores, scored_tools, result,
                   first_call, app, mcp_session, openai_tools>>
    /\ UNCHANGED mcpvars
    /\ UNCHANGED model_api
    /\ UNCHANGED chatvars
    /\ UNCHANGED concvars
    /\ UNCHANGED notesvars

\* app3 main, up to and including the first request
app3_main ==
    /\ app = "app3"
    /\ pc = "idle"
    /\ LET mcp_tools == IF mcp_session = "none" THEN <<>> ELSE tools
       IN  /\ openai_tools' = IF mcp_tools # <<>>
                               THEN openai_tools_app3(mcp_tools) ELSE <<>>
           /\ sent' = (IF mcp_session = "none" THEN <<"no_connection">> ELSE <<>>)
                          \o <<"placeholder">>
    /\ request' = IF openai_tools' # <<>>
                  THEN Request(openai_tools') ELSE RequestWithoutTools
    /\ iteration' = 0
    /\ pc' = "awaiting"
    /\ UNCHANGED <<query, tools, max_tools, scores, scored_tools, result,
                   first_call, app, mcp_session>>
    /\ UNCHANGED mcpvars
    /\ UNCHANGED loopvars
    /\ UNCHANGED chatvars
    /\ UNCHANGED concvars
    /\ UNCHANGED notesvars

\* app3 main from the first response on: one round of tool calls at most, then
\* a final request without tools
app3_main_response(raised, tool_calls) ==
    /\ app = "app3"
    /\ pc = "awaiting"
    /\ IF raised
       THEN /\ sent' = Append(sent, "error")
            /\ UNCHANGED <<request, iteration>>
       ELSE IF tool_calls /\ mcp_session # "none"
            THEN /\ iteration' = 1
                 /\ request' = RequestWithoutTools
                 /\ sent' = Append(sent, "final")
            ELSE /\ sent' = Append(sent, "final")
                 /\ UNCHANGED <<request, iteration>>
    /\ pc' = "done"
    /\ UNCHANGED <<query, tools, max_tools, scores, scored_tools, result,
                   first_call, app, mcp_session, openai_tools>>
    /\ UNCHANGED mcpvars
    /\ UNCHANGED loopvars
    /\ UNCHANGED chatvars
    /\ UNCHANGED concvars
    /\ UNCHANGED notesvars

\* notes_app_chainlit on_mcp_connect of the connection called name, between
\* two messages: the declarations are built when the connection is made and
\* stored in the user session with the session
notes_on_mcp_connect(name, raised) ==
    /\ app = "notes_app"
    /\ pc \in {"idle", "done"}
    /\ mcp_session = "connected"
    /\ IF raised
       THEN /\ sent' = <<"failed_to_connect">>
            /\ UNCHANGED <<session_tools, mcp_sessions>>
       ELSE /\ session_tools' = DictSet(session_tools, name, openai_tools_notes(tools))
            /\ mcp_sessions' = DictSet(mcp_sessions, name, name)
            /\ sent' = <<"connected">>
    /\ UNCHANGED <<pc, query, tools, max_tools, scores, scored_tools, result,
                   first_call, app, mcp_session, openai_tools, request, iteration>>
    /\ UNCHANGED mcpvars
    /\ UNCHANGED loopvars
    /\ UNCHANGED chatvars
    /\ UNCHANGED concvars
    /\ UNCHANGED message_history

\* notes_app_chainlit on_mcp_disconnect, between two messages
notes_on_mcp_disconnect(name) ==
    /\ app = "notes_app"
    /\ pc \in {"idle", "done"}
    /\ session_tools' = DictPop(session_tools, name)
    /\ mcp_sessions' = DictPop(mcp_sessions, name)
    /\ sent' = <<"disconnected">>
    /\ UNCHANGED <<pc, query, tools, max_tools, scores, scored_tools, result,
                   first_call, app, mcp_session, openai_tools, request, iteration>>
    /\ UNCHANGED mcpvars
    /\ UNCHANGED loopvars
    /\ UNCHANGED chatvars
    /\ UNCHANGED concvars
    /\ UNCHANGED message_history

\* notes_app_chainlit main, up to and including the first request: the user
\* message is appended to the list the user session holds, and the stored
\* declarations are sent as they are.  It handles the first message of the
\* chat, or (again) a message that follows one main has returned from.
notes_main(again) ==
    /\ app = "notes_app"
    /\ pc = IF again THEN "done" ELSE "idle"
    /\ Len(SelectSeq(message_history, LAMBDA m : m.role = "user")) < MaxMessages
    /\ message_history' = Append(message_history, UserMessage)
    /\ openai_tools' = AllTools(session_tools)
    /\ request' = Request(openai_tools')
    /\ n_requests' = n_requests + 1
    /\ iteration' = 0
    /\ sent' = <<>>
    /\ pc' = "awaiting"
    /\ UNCHANGED <<query, tools, max_tools, scores, scored_tools, result,
                   first_call, app, mcp_session>>
    /\ UNCHANGED mcpvars
    /\ UNCHANGED <<messages, response, tool_log, model_api>>
    /\ UNCHANGED chatvars
    /\ UNCHANGED concvars
    /\ UNCHANGED <<session_tools, mcp_sessions>>

\* notes_app_chainlit main from a response of the model API on: the request
\* raised, or the response r was received; a round of tool calls and the next
\* request, or the final message.  "while response_message.tool_calls" has no
\* limit of its own, the model follows it for MaxRounds rounds.  message_history
\* is the list the user session holds (user_session.get hands out the stored
\* object), so what is appended is in the session whether line 205 is reached
\* or not.
notes_main_response(r) ==
    /\ app = "notes_app"
    /\ pc = "awaiting"
    /\ r \in model_api
    /\ IF r.raised
       THEN /\ sent' = Append(sent, "error")
            /\ pc' = "done"
            /\ UNCHANGED <<request, iteration, message_history, response,
                           n_requests, tool_log>>
       ELSE /\ response' = Received(r, n_requests)
            /\ IF r.tool_calls # <<>>
               THEN LET round == NotesToolCallsLoop(
                                     r.tool_calls, response'.tool_calls, 1,
                                     [message_history |->
                                          Append(message_history,
                                                 AssistantMessage(response'.tool_calls)),
                                      tool_log |-> tool_log,
                                      sent |-> sent,
                                      raised |-> FALSE],
                                     mcp_sessions)
                    IN  /\ iteration < MaxRounds
                        /\ iteration' = iteration + 1
                        /\ message_history' = round.message_history
                        /\ tool_log' = round.tool_log
                        /\ IF round.raised
                           THEN /\ sent' = Append(round.sent, "error")
                                /\ pc' = "done"
                                /\ UNCHANGED <<request, n_requests>>
                           ELSE /\ sent' = round.sent
                                /\ request' = Request(openai_tools)
                                /\ n_requests' = n_requests + 1
                                /\ pc' = "awaiting"
               ELSE /\ message_history' =
                           IF r.content
                           THEN Append(message_history, AssistantMessage(<<>>))
                           ELSE message_history
                    /\ sent' = IF r.content THEN Append(sent, "final") ELSE sent
                    /\ pc' = "done"
                    /\ UNCHANGED <<request, iteration, n_requests, tool_log>>
    /\ UNCHANGED <<query, tools, max_tools, scores, scored_tools, result,
                   first_call, app, mcp_session, openai_tools>>
    /\ UNCHANGED mcpvars
    /\ UNCHANGED <<messages, model_api>>
    /\ UNCHANGED chatvars
    /\ UNCHANGED concvars
    /\ UNCHANGED <<session_tools, mcp_sessions>>

NextApps ==
    \/ \E q \in Queries : on_message(q)
    \/ \E r \in Responses : on_message_response(r)
    \/ app3_main
    \/ \E raised, tool_calls \in BOOLEAN : app3_main_response(raised, tool_calls)
    \/ \E name \in ConnectionNames : \E raised \in BOOLEAN :
           notes_on_mcp_connect(name, raised)
    \/ notes_main(FALSE)
    \/ \E r \in NotesResponses : notes_main_response(r)

SpecApps ==
    InitApps /\ [][NextApps]_vars

\* a notes_app_chainlit chat: connections come and go between the messages,
\* and the model API gives every response of NotesResponses
InitNotes ==
    /\ pc = "idle"
    /\ app = "notes_app"
    /\ mcp_session = "connected"
    /\ tools = SubSeq(ToolPool, 1, 1)
    /\ query = <<>>
    /\ max_tools = 0
    /\ scores = <<>>
    /\ scored_tools = <<>>
    /\ result = <<>>
    /\ first_call = NoCall
    /\ openai_tools = <<>>
    /\ request = NoRequest
    /\ iteration = 0
    /\ sent = <<>>
    /\ NoMcp
    /\ messages = <<>>
    /\ response = NoResponse
    /\ n_requests = 0
    /\ tool_log = <<>>
    /\ model_api = NotesResponses
    /\ NoChats
    /\ NoInvocations
    /\ message_history = <<SystemMessage>>
    /\ session_tools = <<>>
    /\ mcp_sessions = <<>>

NextNotes ==
    \/ \E name \in ConnectionNames : \E raised \in BOOLEAN :
           notes_on_mcp_connect(name, raised)
    \/ \E name \in ConnectionNames : notes_on_mcp_disconnect(name)
    \/ \E again \in BOOLEAN : notes_main(again)
    \/ \E r \in NotesResponses : notes_main_response(r)

SpecNotes ==
    InitNotes /\ [][NextNotes]_vars

NextLoop ==
    \/ \E q \in Queries : on_message(q)
    \/ \E r \in Responses : on_message_response(r)

SpecLoop ==
    InitLoop /\ [][NextLoop]_vars

(***************************************************************************)
(* The MCP client of app2.py: parse_sse_response and MCPClient.            *)
(***************************************************************************)
\* str.strip()
Strip(s) ==
    LET kept == {i \in 1..Len(s) : ~IsSpace(s[i])}
    IN  IF kept = {}
        THEN <<>>
        ELSE SubSeq(s, CHOOSE i \in kept : \A j \in kept : i <= j,
                       CHOOSE i \in kept : \A j \in kept : i >= j)

\* str.split(sep) for a one-character separator: empty pieces are kept
RECURSIVE SplitOnFrom(_, _, _, _)
SplitOnFrom(s, sep, i, cur) ==
    IF i > Len(s)
    THEN <<cur>>
    ELSE IF s[i] = sep
         THEN <<cur>> \o SplitOnFrom(s, sep, i + 1, <<>>)
         ELSE SplitOnFrom(s, sep, i + 1, Append(cur, s[i]))

SplitOn(s, sep) ==
    SplitOnFrom(s, sep, 1, <<>>)

\* str.startswith(prefix)
StartsWith(s, prefix) ==
    /\ Len(s) >= Len(prefix)
    /\ SubSeq(s, 1, Len(prefix)) = prefix

\* json.loads raised JSONDecodeError
JSONDecodeError ==
    [ok |-> FALSE]

\* the members of a JSON object from position i on, for documents whose
\* members are "key":digit pairs; a dict is a function from keys to values
RECURSIVE JsonMembers(_, _, _)
JsonMembers(t, i, acc) ==
    IF i > Len(t) \/ t[i] # "\""
    THEN JSONDecodeError
    ELSE LET quotes == {j \in (i + 1)..Len(t) : t[j] = "\""}
         IN  IF quotes = {}
             THEN JSONDecodeError
             ELSE LET j    == CHOOSE q \in quotes : \A r \in quotes : q <= r
                      key  == SubSeq(t, i + 1, j - 1)
                  IN  IF \/ j + 3 > Len(t)
                         \/ t[j + 1] # ":"
                         \/ t[j + 2] \notin {"0", "1", "2", "3", "4", "5", "6", "7", "8", "9"}
                      THEN JSONDecodeError
                      ELSE LET acc1 == [k \in DOMAIN acc \cup {key} |->
                                          IF k = key THEN t[j + 2] ELSE acc[k]]
                           IN  IF t[j + 3] = "}"
                               THEN IF j + 3 = Len(t)
                                    THEN [ok |-> TRUE, value |-> acc1]
                                    ELSE JSONDecodeError
                               ELSE IF t[j + 3] = ","
                                    THEN JsonMembers(t, j + 4, acc1)
                                    ELSE JSONDecodeError

\* json.loads: blanks around the document are ignored
JsonLoads(s) ==
    LET t == Strip(s)
    IN  IF Len(t) < 2 \/ t[1] # "{"
        THEN JSONDecodeError
        ELSE IF t = <<"{", "}">>
             THEN [ok |-> TRUE, value |-> <<>>]
             ELSE JsonMembers(t, 2, <<>>)

\* the Python value None, and a value that is not None
PyNone ==
    [none |-> TRUE]

Some(v) ==
    [none |-> FALSE, value |-> v]

DataPrefix ==
    <<"d", "a", "t", "a", ":", " ">>

\* variant: a data line that does not parse is skipped (continue)
RECURSIVE ParseLinesContinue(_, _)
ParseLinesContinue(lines, n) ==
    IF n > Len(lines)
    THEN PyNone
    ELSE LET line == Strip(lines[n])
         IN  IF StartsWith(line, DataPrefix)
             THEN LET loaded == JsonLoads(SubSeq(line, 7, Len(line)))
                  IN  IF loaded.ok THEN Some(loaded.value)
                      ELSE ParseLinesContinue(lines, n + 1)
             ELSE ParseLinesContinue(lines, n + 1)

\* "for line in lines" of parse_sse_response, from line n on
RECURSIVE ParseLines(_, _)
ParseLines(lines, n) ==
    IF n > Len(lines)
    THEN PyNone
    ELSE LET line == Strip(lines[n])
         IN  IF StartsWith(line, DataPrefix)
             THEN LET loaded == JsonLoads(SubSeq(line, 7, Len(line)))
                  IN  IF loaded.ok THEN Some(loaded.value) ELSE PyNone
             ELSE ParseLines(lines, n + 1)

parse_sse_response(text_) ==
    ParseLines(SplitOn(Strip(text_), "\n"), 1)

\* the lines a text is made of: a response; another response; a notification; a truncated document; the event name; an empty line; an error, with blanks around the line; no blank after the colon; an empty object
MaxLines == 3

SseLines ==
    << <<"d", "a", "t", "a", ":", " ", "{", "\"", "r", "e", "s", "u", "l",
         "t", "\"", ":", "1", "}">>,
       <<"d", "a", "t", "a", ":", " ", "{", "\"", "r", "e", "s", "u", "l",
         "t", "\"", ":", "2", "}">>,
       <<"d", "a", "t", "a", ":", " ", "{", "\"", "m", "e", "t", "h", "o",
         "d", "\"", ":", "1", "}">>,
       <<"d", "a", "t", "a", ":", " ", "{", "\"", "r", "e", "s", "u">>,
       <<"e", "v", "e", "n", "t", ":", " ", "m", "e", "s", "s", "a", "g",
         "e">>,
       <<>>,
       <<" ", " ", "d", "a", "t", "a", ":", " ", "{", "\"", "e", "r", "r",
         "o", "r", "\"", ":", "1", "}", "\r">>,
       <<"d", "a", "t", "a", ":", "{", "\"", "r", "e", "s", "u", "l", "t",
         "\"", ":", "1", "}">>,
       <<"d", "a", "t", "a", ":", " ", "{", "}">> >>

\* lines joined by newlines
RECURSIVE JoinLines(_)
JoinLines(lines) ==
    IF lines = <<>>
    THEN <<>>
    ELSE IF Len(lines) = 1
         THEN lines[1]
         ELSE lines[1] \o <<"\n">> \o JoinLines(Tail(lines))

SseTexts ==
    {JoinLines(ls) : ls \in UNION {[1..n -> {SseLines[k] : k \in 1..Len(SseLines)}] :
                                    n \in 0..MaxLines}}

\* the filter and the chat handlers are not in use
NoFilter ==
    /\ query = <<>>
    /\ tools = <<>>
    /\ max_tools = 0
    /\ scores = <<>>
    /\ scored_tools = <<>>
    /\ result = <<>>
    /\ first_call = NoCall

\* one call of parse_sse_response on an arbitrary text
InitParse ==
    /\ pc = "ready"
    /\ text \in SseTexts
    /\ parsed = NotParsed
    /\ request_id = 0
    /\ rpc = <<>>
    /\ server = <<>>
    /\ NoFilter
    /\ NoChat
    /\ NoLoop
    /\ NoChats
    /\ NoInvocations
    /\ NoNotes

Parse ==
    /\ pc = "ready"
    /\ parsed' = [returned |-> TRUE, value |-> parse_sse_response(text)]
    /\ pc' = "returned"
    /\ UNCHANGED <<query, tools, max_tools, scores, scored_tools, result, first_call>>
    /\ UNCHANGED appvars
    /\ UNCHANGED <<text, request_id, rpc, server>>
    /\ UNCHANGED loopvars
    /\ UNCHANGED chatvars
    /\ UNCHANGED concvars
    /\ UNCHANGED notesvars

NextParse ==
    Parse

SpecParse ==
    InitParse /\ [][NextParse]_vars

\* the SSE events a server sends: a response,
\* a notification,
\* an error,
\* a response with both fields,
\* a comment
MaxEvents == 2
MaxInFlight == 2

SseEvents ==
    << <<"d", "a", "t", "a", ":", " ", "{", "\"", "r", "e", "s", "u", "l",
         "t", "\"", ":", "1", "}", "\n", "\n">>,
       <<"d", "a", "t", "a", ":", " ", "{", "\"", "m", "e", "t", "h", "o",
         "d", "\"", ":", "1", "}", "\n", "\n">>,
       <<"d", "a", "t", "a", ":", " ", "{", "\"", "e", "r", "r", "o", "r",
         "\"", ":", "1", "}", "\n", "\n">>,
       <<"d", "a", "t", "a", ":", " ", "{", "\"", "r", "e", "s", "u", "l",
         "t", "\"", ":", "2", ",", "\"", "e", "r", "r", "o", "r", "\"",
         ":", "1", "}", "\n", "\n">>,
       <<":", " ", "p", "i", "n", "g", "\n", "\n">> >>

\* the answers of a server to one request: an HTTP status and, for 200, a
\* stream of events, closed with or without the blank line of the last event
ServerAnswers ==
    {[status |-> 500, events |-> <<>>, cut |-> 0]}
        \cup {[status |-> 200, events |-> es, cut |-> c] :
                 es \in UNION {[1..n -> 1..Len(SseEvents)] : n \in 0..MaxEvents},
                 c \in {0, 2}}

\* the short answers given when several requests are in flight
ShortAnswers ==
    {[status |-> 500, events |-> <<>>, cut |-> 0],
     [status |-> 200, events |-> <<5>>, cut |-> 0]}

\* the text of the body of an answer
RECURSIVE ConcatEvents(_)
ConcatEvents(es) ==
    IF es = <<>> THEN <<>> ELSE SseEvents[Head(es)] \o ConcatEvents(Tail(es))

StreamText(answer) ==
    LET body == ConcatEvents(answer.events)
    IN  SubSeq(body, 1, IF Len(body) > answer.cut THEN Len(body) - answer.cut ELSE 0)

\* MCPClient.send_request.  A call is a record of rpc: the id of its payload,
\* where it stands (waiting for the response, streaming, done), how much of the
\* body it has received, its buffer full_response, the last value of its local
\* parsed and its outcome.
ResultKey ==
    <<"r", "e", "s", "u", "l", "t">>

ErrorKey ==
    <<"e", "r", "r", "o", "r">>

Pending ==
    [kind |-> "pending"]

Raised(error) ==
    [kind |-> "raised", error |-> error]

Returned(value) ==
    [kind |-> "returned", value |-> value]

\* "if parsed:"
Truthy(p) ==
    /\ ~p.none
    /\ DOMAIN p.value # {}

\* variant: "result" is looked at before "error"
OnParsedResultFirst(p) ==
    IF ResultKey \in DOMAIN p.value
    THEN Returned(p.value[ResultKey])
    ELSE IF ErrorKey \in DOMAIN p.value
         THEN Raised("MCP Error")
         ELSE Pending

\* what send_request does with a parsed event; the digit of an "error" member
\* stands for the error object of JSON-RPC, from which the message is built
OnParsed(p) ==
    IF ErrorKey \in DOMAIN p.value
    THEN Raised("MCP Error")
    ELSE IF ResultKey \in DOMAIN p.value
         THEN Returned(p.value[ResultKey])
         ELSE Pending

\* variant: the id is one more than the number of calls that have completed
NextRequestIdFromCompleted(request_id_, rpc_) ==
    Cardinality({c \in 1..Len(rpc_) : rpc_[c].phase = "done"}) + 1

\* self.request_id += 1
NextRequestId(request_id_, rpc_) ==
    request_id_ + 1

NewCall(id) ==
    [id |-> id, phase |-> "waiting", pos |-> 0, full_response |-> <<>>,
     parsed |-> PyNone, outcome |-> Pending]

\* the response has arrived: the status check
AfterStatus(call, answer) ==
    IF answer.status # 200
    THEN [call EXCEPT !.phase = "done", !.outcome = Raised("HTTP")]
    ELSE [call EXCEPT !.phase = "streaming"]

\* one turn of "async for chunk in response.aiter_text()"
AfterChunk(call, chunk) ==
    LET full_response == call.full_response \o chunk
        received == [call EXCEPT !.pos = call.pos + Len(chunk),
                                 !.full_response = full_response]
    IN  IF Contains(full_response, <<"\n", "\n">>)
        THEN LET p == parse_sse_response(full_response)
                 seen == [received EXCEPT !.parsed = p]
             IN  IF Truthy(p)
                 THEN IF OnParsed(p) # Pending
                      THEN [seen EXCEPT !.phase = "done", !.outcome = OnParsed(p)]
                      ELSE [seen EXCEPT !.full_response = <<>>]
                 ELSE seen
        ELSE received

\* the stream has ended: the final attempt on what is left in the buffer
AfterStream(call) ==
    IF call.full_response # <<>>
    THEN LET p == parse_sse_response(call.full_response)
             seen == [call EXCEPT !.phase = "done", !.parsed = p]
         IN  IF Truthy(p) /\ OnParsed(p) # Pending
             THEN [seen EXCEPT !.outcome = OnParsed(p)]
             ELSE [seen EXCEPT !.outcome = Raised("No valid response")]
    ELSE [call EXCEPT !.phase = "done", !.outcome = Raised("No valid response")]

\* one client and the answers its server will give; with several requests the
\* answers are short
InitMcp ==
    /\ pc = "client"
    /\ text = <<>>
    /\ parsed = NotParsed
    /\ request_id = 0
    /\ rpc = <<>>
    /\ server \in {<<a>> : a \in ServerAnswers}
                     \cup UNION {[1..n -> ShortAnswers] : n \in 2..MaxInFlight}
    /\ NoFilter
    /\ NoChat
    /\ NoLoop
    /\ NoChats
    /\ NoInvocations
    /\ NoNotes

\* send_request up to its first await: the id and the payload
send_request ==
    /\ pc = "client"
    /\ request_id < Len(server)
    /\ request_id' = NextRequestId(request_id, rpc)
    /\ rpc' = Append(rpc, NewCall(request_id'))
    /\ UNCHANGED <<pc, query, tools, max_tools, scores, scored_tools, result, first_call>>
    /\ UNCHANGED appvars
    /\ UNCHANGED <<text, parsed, server>>
    /\ UNCHANGED loopvars
    /\ UNCHANGED chatvars
    /\ UNCHANGED concvars
    /\ UNCHANGED notesvars

send_request_status(c) ==
    /\ rpc[c].phase = "waiting"
    /\ rpc' = [rpc EXCEPT ![c] = AfterStatus(rpc[c], server[c])]
    /\ UNCHANGED <<pc, query, tools, max_tools, scores, scored_tools, result, first_call>>
    /\ UNCHANGED appvars
    /\ UNCHANGED <<text, parsed, request_id, server>>
    /\ UNCHANGED loopvars
    /\ UNCHANGED chatvars
    /\ UNCHANGED concvars
    /\ UNCHANGED notesvars

send_request_chunk(c, k) ==
    /\ rpc[c].phase = "streaming"
    /\ rpc[c].pos + k <= Len(StreamText(server[c]))
    /\ rpc' = [rpc EXCEPT ![c] =
                 AfterChunk(rpc[c], SubSeq(StreamText(server[c]),
                                           rpc[c].pos + 1, rpc[c].pos + k))]
    /\ UNCHANGED <<pc, query, tools, max_tools, scores, scored_tools, result, first_call>>
    /\ UNCHANGED appvars
    /\ UNCHANGED <<text, parsed, request_id, server>>
    /\ UNCHANGED loopvars
    /\ UNCHANGED chatvars
    /\ UNCHANGED concvars
    /\ UNCHANGED notesvars

send_request_end(c) ==
    /\ rpc[c].phase = "streaming"
    /\ rpc[c].pos = Len(StreamText(server[c]))
    /\ rpc' = [rpc EXCEPT ![c] = AfterStream(rpc[c])]
    /\ UNCHANGED <<pc, query, tools, max_tools, scores, scored_tools, result, first_call>>
    /\ UNCHANGED appvars
    /\ UNCHANGED <<text, parsed, request_id, server>>
    /\ UNCHANGED loopvars
    /\ UNCHANGED chatvars
    /\ UNCHANGED concvars
    /\ UNCHANGED notesvars

NextMcp ==
    \/ send_request
    \/ \E c \in 1..Len(rpc) : send_request_status(c)
    \/ \E c \in 1..Len(rpc) : \E k \in 1..Len(StreamText(server[c])) :
           send_request_chunk(c, k)
    \/ \E c \in 1..Len(rpc) : send_request_end(c)

SpecMcp ==
    InitMcp /\ [][NextMcp]_vars

\* The chat sessions of one app2 process.  mcp_session and all_tools are
\* module globals (lines 75-76), the handlers of all chats assign them.  Chat 1
\* is the chat whose message is followed; each chat goes through on_chat_start
\* ("new", "connecting", "listing", then "started", or "unconnected" when it
\* returned without a client, or "start_failed" when it returned with a client
\* and without a catalog) and on_chat_end ("closing", "ended").
MaxChats == 2

\* the catalogs list_tools returns
ListedCatalogs ==
    {<<>>, SessionCatalog}

\* the responses of the model API while chats come and go
ChatResponses ==
    {RequestRaised, ModelResponse(<<>>, TRUE)}

InitChats ==
    /\ pc = "idle"
    /\ app = "app2"
    /\ mcp_session = "none"
    /\ tools = <<>>
    /\ query = <<>>
    /\ max_tools = 0
    /\ scores = <<>>
    /\ scored_tools = <<>>
    /\ result = <<>>
    /\ first_call = NoCall
    /\ openai_tools = <<>>
    /\ request = NoRequest
    /\ iteration = 0
    /\ sent = <<>>
    /\ NoMcp
    /\ messages = <<>>
    /\ response = NoResponse
    /\ n_requests = 0
    /\ tool_log = <<>>
    /\ model_api = ChatResponses
    /\ chats = [c \in 1..MaxChats |-> "new"]
    /\ client_open = FALSE
    /\ history = NoHistory
    /\ NoInvocations
    /\ NoNotes

\* what the handlers of the chats leave alone: the state of on_message and of
\* the other parts
ChatFrame ==
    /\ UNCHANGED <<pc, query, max_tools, scores, scored_tools, result, first_call>>
    /\ UNCHANGED <<app, openai_tools, request, iteration, sent>>
    /\ UNCHANGED mcpvars
    /\ UNCHANGED loopvars
    /\ UNCHANGED concvars
    /\ UNCHANGED notesvars

\* variant: on_chat_end clears the global only when close did not raise
SessionAfterEndUnlessRaised(mcp_session_, raised) ==
    IF raised THEN mcp_session_ ELSE "none"

\* "mcp_session = None" at the end of on_chat_end
SessionAfterEnd(mcp_session_, raised) ==
    "none"

\* a step of the on_chat_start of chat c: of another chat than chat 1, after
\* the on_chat_start of chat 1 began
StartStep(c) ==
    [history EXCEPT !.started_later = @ \/ (c # 1 /\ chats[1] # "new")]

\* on_chat_start up to the await of init_mcp_session: the API key check and the
\* progress message
start(c, api_key) ==
    /\ chats[c] = "new"
    /\ chats' = [chats EXCEPT ![c] = IF api_key THEN "connecting" ELSE "unconnected"]
    /\ history' = StartStep(c)
    /\ UNCHANGED <<mcp_session, tools, client_open>>
    /\ ChatFrame

\* init_mcp_session has returned a client or None, or has timed out; with a
\* client list_tools is called at once
start_connected(c, outcome) ==
    /\ chats[c] = "connecting"
    /\ IF outcome = "timeout"
       THEN /\ chats' = [chats EXCEPT ![c] = "unconnected"]
            /\ history' = StartStep(c)
            /\ UNCHANGED <<mcp_session, client_open>>
       ELSE IF outcome = "none"
            THEN /\ mcp_session' = "none"
                 /\ chats' = [chats EXCEPT ![c] = "unconnected"]
                 /\ history' = StartStep(c)
                 /\ UNCHANGED client_open
            ELSE /\ mcp_session' = "connected"
                 /\ client_open' = TRUE
                 /\ history' = [StartStep(c) EXCEPT !.started_since = TRUE]
                 /\ chats' = [chats EXCEPT ![c] = "listing"]
    /\ UNCHANGED tools
    /\ ChatFrame

\* list_tools has returned a catalog, or has raised or timed out
start_listed(c, raised, listed) ==
    /\ chats[c] = "listing"
    /\ IF raised
       THEN /\ chats' = [chats EXCEPT ![c] = "start_failed"]
            /\ UNCHANGED tools
       ELSE /\ tools' = listed
            /\ chats' = [chats EXCEPT ![c] = IF listed = <<>> THEN "start_failed"
                                              ELSE "started"]
    /\ history' = StartStep(c)
    /\ UNCHANGED <<mcp_session, client_open>>
    /\ ChatFrame

\* on_chat_end up to the await of close; without a client it is over at once
end(c) ==
    /\ chats[c] \in {"started", "start_failed", "unconnected"}
    /\ IF mcp_session # "none"
       THEN /\ client_open' = FALSE
            /\ chats' = [chats EXCEPT ![c] = "closing"]
            /\ UNCHANGED <<mcp_session, history>>
       ELSE /\ mcp_session' = SessionAfterEnd(mcp_session, FALSE)
            /\ history' = [history EXCEPT !.ended = TRUE, !.started_since = FALSE,
                                           !.close = "skipped"]
            /\ chats' = [chats EXCEPT ![c] = "ended"]
            /\ UNCHANGED client_open
    /\ UNCHANGED tools
    /\ ChatFrame

\* close has returned or raised
end_closed(c, raised) ==
    /\ chats[c] = "closing"
    /\ mcp_session' = SessionAfterEnd(mcp_session, raised)
    /\ history' = [history EXCEPT !.ended = TRUE, !.started_since = FALSE,
                                   !.close = IF raised THEN "raised" ELSE "returned"]
    /\ chats' = [chats EXCEPT ![c] = "ended"]
    /\ UNCHANGED <<tools, client_open>>
    /\ ChatFrame

\* a message of chat 1, between its on_chat_start and its on_chat_end
message(q) ==
    /\ chats[1] \in {"started", "start_failed", "unconnected"}
    /\ on_message(q)

NextChats ==
    \/ \E c \in 1..MaxChats : \E api_key \in BOOLEAN : start(c, api_key)
    \/ \E c \in 1..MaxChats : \E outcome \in {"client", "none", "timeout"} :
           start_connected(c, outcome)
    \/ \E c \in 1..MaxChats : \E raised \in BOOLEAN : \E listed \in ListedCatalogs :
           start_listed(c, raised, listed)
    \/ \E c \in 1..MaxChats : end(c)
    \/ \E c \in 1..MaxChats : \E raised \in BOOLEAN : end_closed(c, raised)
    \/ \E q \in Queries : message(q)
    \/ \E r \in Responses : on_message_response(r)

SpecChats ==
    InitChats /\ [][NextChats]_vars

\* Invocations of filter_relevant_tools for two chat sessions over the same
\* cached catalog, taken statement by statement in any interleaving.  The
\* catalog is shared; query_lower, keywords, the two tables, score and
\* scored_tools are locals of an invocation (lines 368-448).
Sessions ==
    {"a", "b"}

\* the queries of the sessions: one that scores tools, one that installs, one
\* that matches nothing; the limits: one tool, or MaxTools
ConcurrentQueries ==
    {q \in Queries : q # <<>> /\ ~Contains(q, <<"\t">>)}

ConcurrentLimits ==
    {1, MaxTools}

NotInvoked ==
    [pc |-> "idle", query |-> <<>>, max_tools |-> 0, order |-> <<>>, i |-> 0,
     scored_tools |-> <<>>, result |-> <<>>, overlapped |-> FALSE]

\* variant: scored_tools is one list of the module, every invocation appends
\* to it
AppendScoredShared(invs, s, entry) ==
    [t \in DOMAIN invs |->
        [invs[t] EXCEPT !.scored_tools = Append(invs[t].scored_tools, entry)]]

\* scored_tools.append((score, tool)) on the list of invocation s
AppendScored(invs, s, entry) ==
    [invs EXCEPT ![s].scored_tools = Append(invs[s].scored_tools, entry)]

\* another invocation is in the middle of its loop
OtherUnderWay(s) ==
    \E t \in Sessions \ {s} :
        invocations[t].pc = "scoring" /\ invocations[t].i > 1

InitConcurrent ==
    /\ pc = "filtering"
    /\ tools = SessionCatalog
    /\ query = <<>>
    /\ max_tools = 0
    /\ scores = <<>>
    /\ scored_tools = <<>>
    /\ result = <<>>
    /\ first_call = NoCall
    /\ NoChat
    /\ NoMcp
    /\ NoLoop
    /\ NoChats
    /\ invocations = [s \in Sessions |-> NotInvoked]
    /\ NoNotes

ConcurrentFrame ==
    /\ UNCHANGED <<pc, query, max_tools, scores, scored_tools, result, first_call>>
    /\ UNCHANGED appvars
    /\ UNCHANGED mcpvars
    /\ UNCHANGED loopvars
    /\ UNCHANGED chatvars
    /\ UNCHANGED notesvars

\* the invocation begins: query_lower, keywords, the tables, the detected
\* categories in the order the set gives them, and the empty scored_tools
filter_begin(s, q, k) ==
    /\ invocations[s].pc = "idle"
    /\ ~Raises(q, tools, k)
    /\ \E order \in Orders(detected_categories(Lower(q))) :
           invocations' = [invocations EXCEPT ![s] =
               [pc |-> "scoring", query |-> q, max_tools |-> k, order |-> order,
                i |-> 1, scored_tools |-> <<>>, result |-> <<>>,
                overlapped |-> FALSE]]
    /\ UNCHANGED tools
    /\ ConcurrentFrame

\* one iteration of "for tool in tools"
filter_score(s) ==
    /\ invocations[s].pc = "scoring"
    /\ invocations[s].i <= Len(tools)
    /\ LET inv   == invocations[s]
           score == ScoreTool(Lower(inv.query), Split(Lower(inv.query)),
                              inv.order, tools[inv.i])
           next  == [invocations EXCEPT ![s].i = inv.i + 1,
                                        ![s].overlapped = inv.overlapped
                                                             \/ OtherUnderWay(s)]
       IN  invocations' = IF score > 0
                          THEN AppendScored(next, s, <<score, inv.i>>)
                          ELSE next
    /\ tools' = [tools EXCEPT ![invocations[s].i] =
                    DictAfterGet(DictAfterGet(@, "name", <<>>), "description", <<>>)]
    /\ ConcurrentFrame

\* scored_tools.sort(...)
filter_sort(s) ==
    /\ invocations[s].pc = "scoring"
    /\ invocations[s].i > Len(tools)
    /\ invocations' = [invocations EXCEPT
                          ![s].pc = "sorted",
                          ![s].scored_tools = SortReverse(invocations[s].scored_tools, <<>>)]
    /\ UNCHANGED tools
    /\ ConcurrentFrame

\* the fallback or the slice, and the return
filter_return(s) ==
    /\ invocations[s].pc = "sorted"
    /\ invocations' = [invocations EXCEPT
                          ![s].pc = "returned",
                          ![s].result = ReturnValue(invocations[s].scored_tools, tools,
                                                    invocations[s].max_tools)]
    /\ UNCHANGED tools
    /\ ConcurrentFrame

NextConcurrent ==
    \/ \E s \in Sessions : \E q \in ConcurrentQueries : \E k \in ConcurrentLimits :
           filter_begin(s, q, k)
    \/ \E s \in Sessions : filter_score(s)
    \/ \E s \in Sessions : filter_sort(s)
    \/ \E s \in Sessions : filter_return(s)

SpecConcurrent ==
    InitConcurrent /\ [][NextConcurrent]_vars

(***************************************************************************)
(* Properties.                                                             *)
(***************************************************************************)
Range(f) ==
    {f[x] : x \in DOMAIN f}

Min(a, b) ==
    IF a < b THEN a ELSE b

\* the score the filter computed for catalog entry i
ScoreOf(i) ==
    scores[i]

\* the lowercased name of catalog entry i
NameOf(i) ==
    Lower(Get(tools[i], "name", <<>>))

DescOf(i) ==
    Lower(Get(tools[i], "description", <<>>))

HasReadVerb(i) ==
    \/ Contains(NameOf(i), <<"l", "i", "s", "t">>)
    \/ Contains(NameOf(i), <<"g", "e", "t">>)

NoToolScores ==
    \A i \in 1..Len(tools) : scores[i] = 0

SomeToolScores ==
    ~NoToolScores

\* C1: the output is never longer than min(max_results, len(catalog)), on the
\* scored path and on the fallback path (max_results >= 0).
C1_Bounded ==
    pc = "returned" => Len(result) <= Min(max_tools, Len(tools))

\* the scored path truncates: more tools scored than max_results admits
C1_Witness ==
    /\ pc = "returned"
    /\ max_tools >= 1
    /\ Len(scored_tools) > max_tools
    /\ Len(result) = max_tools

\* C2: every output element is an entry of the input catalog, and no catalog
\* position is returned twice.
C2_SubsetNoRepeat ==
    pc = "returned" =>
        /\ \A n \in 1..Len(result) : result[n] \in 1..Len(tools)
        /\ \A m, n \in 1..Len(result) : result[m] = result[n] => m = n

\* two catalog positions holding equal tools are both returned
C2_Witness ==
    /\ pc = "returned"
    /\ \E m, n \in 1..Len(result) :
          /\ m /= n
          /\ tools[result[m]] = tools[result[n]]
          /\ ScoreOf(result[m]) >= 15

\* C3: on the scored path the output is ordered by non-increasing score, and
\* output tools with equal score keep their catalog order.
C3_SortedStable ==
    pc = "returned" /\ SomeToolScores =>
        LET sc == scores
        IN  \A m, n \in 1..Len(result) :
                m < n =>
                    /\ sc[result[m]] >= sc[result[n]]
                    /\ sc[result[m]] = sc[result[n]] => result[m] < result[n]

\* a tie between two returned tools, and a lower-scored tool that stood before
\* them in the catalog is returned after them
C3_Witness ==
    /\ pc = "returned"
    /\ \E m, n, p \in 1..Len(result) :
          /\ m < n /\ n < p
          /\ ScoreOf(result[m]) = ScoreOf(result[n])
          /\ ScoreOf(result[n]) > ScoreOf(result[p])
          /\ result[p] < result[m]

\* C4: an invocation with the arguments of the first invocation returns what
\* the first invocation returned, whatever was invoked in between and in
\* whatever order the detected categories are iterated.
C4_Deterministic ==
    first_call.called /\ query = first_call.query /\ max_tools = first_call.max_tools
        => result = first_call.result

\* the first arguments again, after an invocation with other arguments, for a
\* query that activates several categories
C4_Witness ==
    /\ first_call.called
    /\ first_call.interleaved
    /\ query = first_call.query
    /\ max_tools = first_call.max_tools
    /\ Cardinality(detected_categories(Lower(query))) >= 2
    /\ Len(result) >= 2

\* a query token of length >= 3 is a substring of the name of entry i
NameHasKeyword(i) ==
    LET keywords == Split(Lower(query))
    IN  \E n \in 1..Len(keywords) :
            Len(keywords[n]) >= 3 /\ Contains(NameOf(i), keywords[n])

TopScored(sc, i) ==
    \A j \in DOMAIN sc : sc[j] <= sc[i]

\* the entries before i that score the same as i
TiedBefore(sc, i) ==
    {j \in DOMAIN sc : j < i /\ sc[j] = sc[i]}

\* C5 as stated: a tool whose name contains a query keyword and that no other
\* tool outscores is in the output for every max_results >= 1.
C5_Original ==
    pc = "returned" /\ max_tools >= 1 =>
        LET sc == scores
        IN  \A i \in 1..Len(tools) :
                NameHasKeyword(i) /\ TopScored(sc, i) => i \in Range(result)

\* C5 amended: such a tool is in the output for every max_results greater than
\* the number of equally scored tools that precede it in the catalog.
C5_TopKeywordIncluded ==
    pc = "returned" =>
        LET sc == scores
        IN  \A i \in 1..Len(tools) :
                /\ NameHasKeyword(i)
                /\ TopScored(sc, i)
                /\ max_tools >= 1 + Cardinality(TiedBefore(sc, i))
                => i \in Range(result)

\* a top-scored keyword match that ties with an earlier entry and is returned
C5_Witness ==
    /\ pc = "returned"
    /\ \E i \in 1..Len(tools) :
          /\ NameHasKeyword(i)
          /\ TopScored(scores, i)
          /\ TiedBefore(scores, i) /= {}
          /\ max_tools = 1 + Cardinality(TiedBefore(scores, i))
          /\ i \in Range(result)

\* C6 as stated: when no tool scores and some name contains "list" or "get",
\* the output is non-empty for any max_results.
C6_Original ==
    pc = "returned" /\ NoToolScores /\ (\E i \in 1..Len(tools) : HasReadVerb(i))
        => result /= <<>>

\* C6 amended: ... the output is non-empty for any max_results >= 1.
C6_FallbackNonEmpty ==
    pc = "returned" /\ max_tools >= 1 /\ NoToolScores
                    /\ (\E i \in 1..Len(tools) : HasReadVerb(i))
        => result /= <<>>

\* a non-empty query for which nothing scores; the only read tool is a "get" one
C6_Witness ==
    /\ pc = "returned"
    /\ max_tools >= 1
    /\ query /= <<>>
    /\ NoToolScores
    /\ \E i \in 1..Len(tools) : HasReadVerb(i)
    /\ \A i \in 1..Len(tools) : ~Contains(NameOf(i), <<"l", "i", "s", "t">>)
    /\ result /= <<>>

\* the catalog positions whose name contains "list" or "get"
ReadPositions ==
    {i \in 1..Len(tools) : HasReadVerb(i)}

\* C7: when every tool scores 0, the output is exactly the first max_results
\* catalog entries whose lowercased name contains "list" or "get", in catalog
\* order.
C7_FallbackExact ==
    pc = "returned" /\ NoToolScores =>
        /\ Len(result) = Min(max_tools, Cardinality(ReadPositions))
        /\ \A n \in 1..Len(result) :
              /\ result[n] \in ReadPositions
              /\ Cardinality({i \in ReadPositions : i <= result[n]}) = n

\* the fallback skips an entry without a read verb and cuts off a read tool
C7_Witness ==
    /\ pc = "returned"
    /\ NoToolScores
    /\ max_tools >= 1
    /\ Cardinality(ReadPositions) > max_tools
    /\ 1 \notin ReadPositions
    /\ Len(result) = max_tools

\* C8: on the scored path no tool with score 0 is returned, also when fewer
\* than max_results tools score.
C8_NoZeroScore ==
    pc = "returned" /\ SomeToolScores =>
        LET sc == scores
        IN  \A n \in 1..Len(result) : sc[result[n]] > 0

\* fewer tools score than max_results admits, and a read tool that scores 0
\* is left out
C8_Witness ==
    /\ pc = "returned"
    /\ SomeToolScores
    /\ Len(result) < max_tools
    /\ \E i \in 1..Len(tools) :
          HasReadVerb(i) /\ ScoreOf(i) = 0 /\ i \notin Range(result)

\* the categories one of whose trigger keywords is a substring of q
ActiveCategories(q) ==
    {c \in DOMAIN category_keywords :
        \E kw \in Range(category_keywords[c]) : Contains(q, kw)}

\* the operation classes one of whose synonyms is a substring of q
QueryOperations(q) ==
    {o \in DOMAIN operation_types :
        \E kw \in Range(operation_types[o]) : Contains(q, kw)}

\* the score as the sum of all contributions, for a lowercased query q with
\* tokens tokens, active categories active and operation classes ops, and a
\* tool with lowercased name and description
ClaimedScore(q, tokens, active, ops, name, desc) ==
    LET InName(kws) == \E kw \in Range(kws) : Contains(name, kw)
        InDesc(kws) == \E kw \in Range(kws) : Contains(desc, kw)
    IN    15 * Cardinality({c \in active : InName(category_keywords[c])})
        + 5 * Cardinality({c \in active : InDesc(category_keywords[c])})
        + 10 * Cardinality({n \in 1..Len(tokens) :
                               Len(tokens[n]) >= 3 /\ Contains(name, tokens[n])})
        + 3 * Cardinality({n \in 1..Len(tokens) :
                              Len(tokens[n]) >= 3 /\ Contains(desc, tokens[n])})
        + 8 * Cardinality({o \in ops : InName(operation_types[o])})
        + 12 * Cardinality({e \in Range(high_priority_entities) :
                               Contains(q, e) /\ Contains(name, e)})

\* C9: the score of every tool is the sum of all contributions (category
\* +15 name / +5 description per active category, keyword +10 / +3 per token
\* of length >= 3, operation class +8, entity +12); the scored list holds
\* exactly the tools with a positive sum, each with that sum.
C9_ScoreIsSum ==
    pc = "returned" =>
        LET q      == Lower(query)
            tokens == Split(q)
            active == ActiveCategories(q) \cap DOMAIN category_keywords
            ops    == QueryOperations(q) \cap DOMAIN operation_types
        IN  \A i \in 1..Len(tools) :
                LET sum == ClaimedScore(q, tokens, active, ops, NameOf(i), DescOf(i))
                IN  /\ scores[i] = sum
                    /\ sum > 0 <=> \E n \in 1..Len(scored_tools) :
                                      scored_tools[n] = <<sum, i>>

\* a tool that collects name and description points of two categories, keyword
\* points and an operation point at once
C9_Witness ==
    /\ pc = "returned"
    /\ \E n \in 1..Len(scored_tools) :
          LET i == scored_tools[n][2]
          IN  /\ Cardinality(detected_categories(Lower(query))) >= 2
              /\ scored_tools[n][1] >= 2 * 15 + 2 * 5 + 10 + 3 + 8
              /\ DescOf(i) /= <<>>

\* the tokens of the query that are at least 3 characters long
LongKeywords ==
    SelectSeq(Split(Lower(query)), LAMBDA kw : Len(kw) >= 3)

\* C10: tokens shorter than 3 characters add no keyword points: for every
\* tool the keyword points are those of the tokens of length >= 3 alone.
C10_ShortTokensIgnored ==
    pc = "returned" =>
        \A i \in 1..Len(tools) :
            KeywordLoop(Split(Lower(query)), NameOf(i), DescOf(i), 0)
                = KeywordLoop(LongKeywords, NameOf(i), DescOf(i), 0)

\* a short token that is a substring of a tool name, which gets no keyword
\* points
C10_Witness ==
    /\ pc = "returned"
    /\ \E i \in 1..Len(tools) :
          /\ \E n \in 1..Len(Split(Lower(query))) :
                /\ Len(Split(Lower(query))[n]) < 3
                /\ Contains(NameOf(i), Split(Lower(query))[n])
          /\ KeywordLoop(Split(Lower(query)), NameOf(i), DescOf(i), 0) = 0
          /\ i \in Range(result)

\* C11: on an empty catalog the call returns the empty sequence, for every
\* query and every limit (negative limits included), and does not raise.
C11_EmptyCatalog ==
    pc # "ready" /\ tools = <<>> => pc = "returned" /\ result = <<>>

\* a query with keywords and a negative limit on the empty catalog
C11_Witness ==
    /\ pc = "returned"
    /\ tools = <<>>
    /\ max_tools < 0
    /\ Split(Lower(query)) # <<>>
    /\ result = <<>>

\* C12: with max_results = 0 the output is empty, whether tools scored or the
\* fallback list is returned.
C12_ZeroLimit ==
    pc = "returned" /\ max_tools = 0 => result = <<>>

\* tools scored, and the limit 0 drops them all
C12_Witness ==
    /\ pc = "returned"
    /\ max_tools = 0
    /\ Len(scored_tools) >= 2
    /\ result = <<>>

\* C13: a call with max_results <= 0 signals an error to the caller.
C13_Original ==
    pc # "ready" /\ max_tools <= 0 => pc = "raised"

\* no name and no description of a catalog entry is null
WellTyped ==
    \A i \in 1..Len(tools) :
        \A key \in {"name", "description"} \cap DOMAIN tools[i] :
            tools[i][key] # NoneValue

\* no catalog entry collects a point for the query
NoToolWouldScore ==
    LET q      == Lower(query)
        tokens == Split(q)
        active == ActiveCategories(q) \cap DOMAIN category_keywords
        ops    == QueryOperations(q) \cap DOMAIN operation_types
    IN  \A i \in 1..Len(tools) :
            ClaimedScore(q, tokens, active, ops, NameOf(i), DescOf(i)) = 0

\* C14: on an empty query, an empty catalog or a query for which no tool
\* scores (the catalog being well typed), the call does not raise: it returns,
\* and what it returns is empty or made of read tools only (the fallback).
C14_NoRaiseOnDegenerate ==
    pc # "ready" /\ WellTyped
                /\ (query = <<>> \/ tools = <<>> \/ NoToolWouldScore) =>
        /\ pc = "returned"
        /\ \A n \in 1..Len(result) : result[n] \in ReadPositions
        /\ tools = <<>> => result = <<>>

\* the empty query on a catalog with read tools returns the fallback list
C14_Witness ==
    /\ pc = "returned"
    /\ query = <<>>
    /\ tools # <<>>
    /\ result # <<>>
    /\ \A n \in 1..Len(result) : result[n] \in ReadPositions

\* C15: a call leaves the catalog as it was: the same length, the same
\* entries in the same order, each with the same keys and the same name,
\* description and input schema.
C15_CatalogUnchanged ==
    [][/\ Len(tools') = Len(tools)
       /\ \A i \in 1..Len(tools) :
             /\ DOMAIN tools'[i] = DOMAIN tools[i]
             /\ \A key \in DOMAIN tools[i] : tools'[i][key] = tools[i][key]]_vars

\* the call returned an entry that has no "description" and no "inputSchema"
\* key, and the entry still has neither
C15_Witness ==
    /\ pc = "returned"
    /\ \E n \in 1..Len(result) : DOMAIN tools[result[n]] = {"name"}
    /\ \E i \in 1..Len(tools) : "inputSchema" \in DOMAIN tools[i]

\* the query "list all devices"
ListAllDevices ==
    <<"l", "i", "s", "t", " ", "a", "l", "l", " ", "d", "e", "v", "i", "c", "e", "s">>

\* C16: for the catalog [list_devices, create_policy, list_policy_packages]
\* (no descriptions), the query "list all devices" and max_results 2 the
\* output is [list_devices, list_policy_packages] in that order: create_policy
\* scores 0 and list_devices scores strictly more than list_policy_packages.
C16_ListAllDevices ==
    /\ pc = "returned"
    /\ tools = SubSeq(ToolPool, 1, 3)
    /\ query = ListAllDevices
    /\ max_tools = 2
    => /\ [n \in 1..Len(result) |-> tools[result[n]].name]
            = <<ToolPool[1].name, ToolPool[3].name>>
       /\ result = <<1, 3>>
       /\ scores[2] = 0
       /\ scores[1] > scores[3]
       /\ scores[3] > 0

\* the call of the example has returned
C16_Witness ==
    /\ pc = "returned"
    /\ tools = SubSeq(ToolPool, 1, 3)
    /\ \A i \in 1..3 : DOMAIN tools[i] = {"name"}
    /\ query = ListAllDevices
    /\ max_tools = 2
    /\ Len(result) = 2

\* the query "show me something unrelated to anything"
SomethingUnrelated ==
    <<"s", "h", "o", "w", " ", "m", "e", " ", "s", "o", "m", "e", "t", "h", "i", "n", "g", " ",
      "u", "n", "r", "e", "l", "a", "t", "e", "d", " ", "t", "o", " ",
      "a", "n", "y", "t", "h", "i", "n", "g">>

\* C17: for the catalog [create_address, create_vpn] and the query "show me
\* something unrelated to anything" no category is activated, both tools
\* score 0 and the output is empty: no name contains "list" or "get".
C17_NothingRelevant ==
    /\ pc = "returned"
    /\ tools = WriteOnlyCatalog
    /\ query = SomethingUnrelated
    => /\ ActiveCategories(Lower(query)) = {}
       /\ detected_categories(Lower(query)) = {}
       /\ scores = <<0, 0>>
       /\ scored_tools = <<>>
       /\ ReadPositions = {}
       /\ result = <<>>

\* the call of the example has returned, with a limit that would admit both
\* tools
C17_Witness ==
    /\ pc = "returned"
    /\ tools = WriteOnlyCatalog
    /\ query = SomethingUnrelated
    /\ max_tools >= 2
    /\ result = <<>>

\* catalog entries i < j with the same name and the same description
Duplicates(i, j) ==
    /\ i < j
    /\ Get(tools[i], "name", <<>>) = Get(tools[j], "name", <<>>)
    /\ Get(tools[i], "description", <<>>) = Get(tools[j], "description", <<>>)

\* the position of catalog entry i in the output
PositionOf(i) ==
    CHOOSE n \in 1..Len(result) : result[n] = i

\* the limit cut nothing off the list that was returned
NothingCutOff ==
    Len(result) = IF scored_tools # <<>>
                  THEN Len(scored_tools)
                  ELSE Cardinality(ReadPositions)

\* C18: entries with the same name and description are independent entries:
\* they get the same score, the later one is never returned without the
\* earlier one, which then comes first, and when the limit cuts nothing off
\* the later one is returned whenever the earlier one is.
C18_DuplicatesIndependent ==
    pc = "returned" =>
        \A i, j \in 1..Len(tools) :
            Duplicates(i, j) =>
                /\ scores[i] = scores[j]
                /\ j \in Range(result) =>
                      i \in Range(result) /\ PositionOf(i) < PositionOf(j)
                /\ i \in Range(result) /\ NothingCutOff => j \in Range(result)

\* the same scoring tool twice in the catalog, another tool between the two,
\* and both copies in the output
C18_Witness ==
    /\ pc = "returned"
    /\ Len(tools) = 3
    /\ Duplicates(1, 3)
    /\ ~Duplicates(1, 2)
    /\ scores[1] > 0
    /\ 1 \in Range(result)
    /\ 3 \in Range(result)

\* the function declarations of the latest request to the model API
Declarations ==
    IF request.sent THEN request.tools ELSE <<>>

\* C19: in app2, app3 and notes_app_chainlit alike, every function declaration
\* handed to the model API has a description of at most 1000 characters.
C19_Original ==
    \A n \in 1..Len(Declarations) :
        Len(Declarations[n].description) <= DescriptionLimit

\* C20: every request app2's on_message sends to the model API, the initial
\* one and those of the tool-call loop, carries at most 100 function
\* declarations, fewer than the 128 the API accepts, whatever the size of the
\* cached catalog.
C20_RequestWithinBudget ==
    app = "app2" /\ request.sent =>
        /\ Len(request.tools) <= MaxToolsPerRequest
        /\ Len(request.tools) <= 128
        /\ Len(request.tools) <= Len(tools)

\* a request of the tool-call loop that carries exactly 100 declarations, cut
\* from a larger catalog of which more than 100 tools scored
C20_Witness ==
    /\ app = "app2"
    /\ request.sent
    /\ iteration >= 1
    /\ Len(tools) > MaxToolsPerRequest
    /\ Len(scored_tools) > MaxToolsPerRequest
    /\ Len(request.tools) = MaxToolsPerRequest

\* the positions at which the lines of a text start, and the line at one
LineStartsOf(t) ==
    {1} \cup {i + 1 : i \in {j \in 1..Len(t) : t[j] = "\n"}}

LineAt(t, p) ==
    LET ends == {i \in p..Len(t) : t[i] = "\n"} \cup {Len(t) + 1}
    IN  SubSeq(t, p, (CHOOSE e \in ends : \A f \in ends : e <= f) - 1)

\* the JSON documents that occur in the texts, with their values
KnownDocuments ==
    { <<<<"{", "\"", "r", "e", "s", "u", "l", "t", "\"", ":", "1", "}">>,
        (<<"r", "e", "s", "u", "l", "t">> :> "1")>>,
      <<<<"{", "\"", "r", "e", "s", "u", "l", "t", "\"", ":", "2", "}">>,
        (<<"r", "e", "s", "u", "l", "t">> :> "2")>>,
      <<<<"{", "\"", "m", "e", "t", "h", "o", "d", "\"", ":", "1", "}">>,
        (<<"m", "e", "t", "h", "o", "d">> :> "1")>>,
      <<<<"{", "\"", "e", "r", "r", "o", "r", "\"", ":", "1", "}">>,
        (<<"e", "r", "r", "o", "r">> :> "1")>>,
      <<<<"{", "}">>, <<>>>> }

\* what the claim says parse_sse_response returns: the value of the first
\* line that starts with "data: " (with the blanks around each line removed
\* first when trimmed is TRUE), None when there is none or when it is no JSON
ClaimedParse(t, trimmed) ==
    LET LineOf(p) == IF trimmed THEN Strip(LineAt(t, p)) ELSE LineAt(t, p)
        data      == {p \in LineStartsOf(t) : StartsWith(LineOf(p), DataPrefix)}
    IN  IF data = {}
        THEN PyNone
        ELSE LET p       == CHOOSE d \in data : \A e \in data : d <= e
                 payload == Strip(SubSeq(LineOf(p), 7, Len(LineOf(p))))
                 known   == {d \in KnownDocuments : d[1] = payload}
             IN  IF known = {}
                 THEN PyNone
                 ELSE Some((CHOOSE d \in known : TRUE)[2])

\* C28 as stated: the first line of the text that starts with "data: " decides
\* the return value.
C28_Original ==
    pc = "returned" => parsed.value = ClaimedParse(text, FALSE)

\* C28: parse_sse_response returns the parsed JSON of the first line that
\* starts with "data: " once the blanks around the line are removed, and None
\* when there is no such line or when that line is not valid JSON; later data
\* lines are not examined.
C28_FirstDataLine ==
    pc = "returned" => parsed.value = ClaimedParse(text, TRUE)

\* None is returned for a text whose first data line is truncated JSON and
\* whose last line is a data line with a valid document
C28_Witness ==
    /\ pc = "returned"
    /\ parsed.value = PyNone
    /\ \E p, q \in LineStartsOf(text) :
          /\ p < q
          /\ LineAt(text, p) = SseLines[4]
          /\ LineAt(text, q) = SseLines[1]
          /\ \A r \in LineStartsOf(text) :
                r < p => ~StartsWith(Strip(LineAt(text, r)), DataPrefix)

\* what each event of SseEvents carries, as the server meant it
EventCarries ==
    << {"result"}, {}, {"error"}, {"result", "error"}, {} >>

EventResult ==
    << "1", "", "", "2", "" >>

\* the first event of a stream that carries a result or an error, 0 if none
FirstAnswering(events) ==
    IF \E n \in 1..Len(events) : EventCarries[events[n]] # {}
    THEN CHOOSE n \in 1..Len(events) :
             /\ EventCarries[events[n]] # {}
             /\ \A m \in 1..(n - 1) : EventCarries[events[m]] = {}
    ELSE 0

\* the outcome of a call on a stream, read event by event
ClaimedOutcome(events) ==
    LET n == FirstAnswering(events)
    IN  IF n = 0
        THEN Raised("No valid response")
        ELSE IF "error" \in EventCarries[events[n]]
             THEN Raised("MCP Error")
             ELSE Returned(EventResult[events[n]])

Done(c) ==
    rpc[c].phase = "done"

\* C25: for every way the stream is split into chunks, send_request returns
\* the result of the first event that carries a result, or raises for the
\* first that carries an error, skipping the events before it that carry
\* neither.
C25_Original ==
    \A c \in 1..Len(rpc) :
        (Done(c) /\ server[c].status = 200)
            => rpc[c].outcome = ClaimedOutcome(server[c].events)

\* C26: send_request returns only the result field of a parsed event and
\* otherwise raises: on a status other than 200 it raises without reading an
\* event; when the parsed event has an error field it raises an MCP error, also
\* when the event has a result field too; when the stream ends without an event
\* carrying a result or an error it raises "No valid response".
C26_ResultOrRaise ==
    \A c \in 1..Len(rpc) :
        Done(c) =>
            /\ rpc[c].outcome.kind \in {"returned", "raised"}
            /\ (server[c].status # 200)
                   <=> (rpc[c].outcome = Raised("HTTP"))
            /\ server[c].status # 200
                   => (rpc[c].pos = 0 /\ rpc[c].full_response = <<>>
                          /\ rpc[c].parsed = PyNone)
            /\ (Truthy(rpc[c].parsed) /\ ErrorKey \in DOMAIN rpc[c].parsed.value)
                   => rpc[c].outcome = Raised("MCP Error")
            /\ rpc[c].outcome.kind = "returned"
                   => /\ Truthy(rpc[c].parsed)
                      /\ ResultKey \in DOMAIN rpc[c].parsed.value
                      /\ ErrorKey \notin DOMAIN rpc[c].parsed.value
                      /\ rpc[c].outcome.value = rpc[c].parsed.value[ResultKey]
            /\ (server[c].status = 200 /\ FirstAnswering(server[c].events) = 0)
                   => rpc[c].outcome = Raised("No valid response")
            /\ rpc[c].outcome.kind = "raised"
                   => rpc[c].outcome.error
                          \in {"HTTP", "MCP Error", "No valid response"}

\* a call has raised the MCP error on an event that has both fields, another
\* kind of call is covered by the other conjuncts
C26_Witness ==
    \E c \in 1..Len(rpc) :
        /\ Done(c)
        /\ server[c].events = <<2, 4>>
        /\ rpc[c].outcome = Raised("MCP Error")
        /\ ResultKey \in DOMAIN rpc[c].parsed.value

\* C27: the ids used by one client are 1, 2, 3, ...: each send_request uses
\* the id one above the previous request's, so no two requests share an id,
\* also with several calls in flight.
C27_IdsCount ==
    /\ request_id = Len(rpc)
    /\ \A c \in 1..Len(rpc) : rpc[c].id = c
    /\ \A c, d \in 1..Len(rpc) : c # d => rpc[c].id # rpc[d].id

\* two calls are in flight at once, both in the middle of their streams
C27_Witness ==
    /\ Len(rpc) >= 2
    /\ \A c \in 1..2 : rpc[c].phase = "streaming" /\ rpc[c].pos > 0
    /\ rpc[1].id = 1 /\ rpc[2].id = 2

\* the positions of the assistant messages in the conversation, one per round
Rounds ==
    {a \in 1..Len(messages) : messages[a].role = "assistant"}

\* the messages that follow assistant message a up to the next assistant
\* message
FollowUp(a) ==
    LET later == {b \in Rounds : b > a}
        stop  == IF later = {} THEN Len(messages) + 1
                 ELSE CHOOSE b \in later : \A c \in later : b <= c
    IN  SubSeq(messages, a + 1, stop - 1)

\* a request to the model API was made after the round of assistant message a
RequestSentAfter(a) ==
    \/ \E b \in Rounds : b > a
    \/ n_requests > Cardinality(Rounds)

Executed(id) ==
    \E n \in 1..Len(tool_log) : tool_log[n].id = id

\* C23: handling one message executes at most 5 rounds of tool calls and sends
\* at most 6 requests to the model API, whatever the model answers; the tool
\* calls of the response that follows the 5th round are not executed, and the
\* handler finishes on that response.
C23_AtMostFiveRounds ==
    /\ [](app = "app2" =>
            /\ iteration <= max_iterations
            /\ Cardinality(Rounds) <= max_iterations
            /\ n_requests <= max_iterations + 1
            /\ (response.received /\ response.tool_calls # <<>>
                   /\ response.tool_calls[1][1] = max_iterations + 1)
                   => /\ pc = "done"
                      /\ Cardinality(Rounds) = max_iterations
                      /\ \A j \in 1..Len(response.tool_calls) :
                             ~Executed(response.tool_calls[j]))
    /\ [][(app = "app2" /\ pc = "awaiting" /\ iteration = max_iterations
              /\ pc' # pc)
             => (pc' = "done" /\ UNCHANGED <<iteration, n_requests, tool_log,
                                             messages>>)]_vars

\* the response to the 6th request asks for tool calls again: none of them is
\* executed and the handler has finished with the warning
C23_Witness ==
    /\ app = "app2"
    /\ pc = "done"
    /\ iteration = max_iterations
    /\ n_requests = max_iterations + 1
    /\ response.received
    /\ response.tool_calls # <<>>
    /\ "iteration_limit" \in Range(sent)
    /\ Len(tool_log) >= max_iterations

\* C24: in each round every tool call of the assistant message gets exactly
\* one tool message with its tool_call_id, after the assistant message and in
\* the order of the calls, before the next request to the model API; a call
\* that fails gets an error tool message and the calls after it are still made.
C24_OneToolMessagePerCall ==
    app = "app2" =>
        /\ \A a \in Rounds :
               LET ids == messages[a].tool_calls
                   follow == FollowUp(a)
               IN  /\ Len(follow) <= Len(ids)
                   /\ \A j \in 1..Len(follow) :
                          /\ follow[j].role = "tool"
                          /\ follow[j].tool_call_id = ids[j]
                          /\ \E n \in 1..Len(tool_log) :
                                 /\ tool_log[n].id = ids[j]
                                 /\ tool_log[n].ok = ~follow[j].error
                   /\ RequestSentAfter(a) => Len(follow) = Len(ids)
        /\ \A m, n \in 1..Len(messages) :
               (m # n /\ messages[m].role = "tool" /\ messages[n].role = "tool")
                   => messages[m].tool_call_id # messages[n].tool_call_id
        /\ \A n \in 1..Len(tool_log) :
               \E m \in 1..Len(messages) :
                   /\ messages[m].role = "tool"
                   /\ messages[m].tool_call_id = tool_log[n].id
        /\ pc = "awaiting" => \A a \in Rounds : RequestSentAfter(a)

\* a round of two calls of which the first failed: both have their tool
\* message, the first an error, and the next request has been made
C24_Witness ==
    /\ app = "app2"
    /\ pc = "awaiting"
    /\ \E a \in Rounds :
           /\ Len(messages[a].tool_calls) = 2
           /\ Len(FollowUp(a)) = 2
           /\ FollowUp(a)[1].error
           /\ ~FollowUp(a)[2].error
           /\ RequestSentAfter(a)

\* C29: when mcp_session is not set, on_message sends the not-connected
\* message and returns: the filter is not called, no request goes to the model
\* API, no tool is called, and mcp_session and all_tools are left as they are.
C29_NotConnected ==
    [][(app = "app2" /\ pc = "idle" /\ mcp_session = "none" /\ pc' # pc)
          => /\ sent' = <<"not_connected">>
             /\ pc' = "done"
             /\ UNCHANGED <<mcp_session, tools, client_open>>
             /\ UNCHANGED <<query, max_tools, scores, scored_tools, result>>
             /\ UNCHANGED <<openai_tools, request, n_requests, messages, response>>
             /\ UNCHANGED tool_log]_vars

\* on_message has returned on a catalog that is cached although no client is
\* set
C29_Witness ==
    /\ app = "app2"
    /\ pc = "done"
    /\ mcp_session = "none"
    /\ tools # <<>>
    /\ sent = <<"not_connected">>
    /\ ~request.sent
    /\ n_requests = 0

\* an on_message of chat 1 begins
MessageBegins ==
    app = "app2" /\ pc = "idle" /\ pc' # pc

\* C22: between a chat's successful on_chat_start and its on_chat_end, every
\* on_message of the chat finds the connection established and open, whatever
\* the on_chat_start and on_chat_end of the other chats do.
C22_Original ==
    [][(MessageBegins /\ chats # <<>> /\ chats[1] = "started")
          => (mcp_session = "connected" /\ client_open
                 /\ sent' # <<"not_connected">>)]_vars

\* C30, as stated: once an on_chat_end has completed, an on_message that begins
\* later reports "not connected".
C30_Original ==
    [][(MessageBegins /\ history.ended) => sent' = <<"not_connected">>]_vars

\* C30: when on_chat_end completes mcp_session is None, whether closing the
\* client raised or not; an on_message that begins after that, and before an
\* on_chat_start has set mcp_session again, reports "not connected", makes no
\* request and executes no tool.
C30_NoneAfterEnd ==
    /\ [][(\E c \in DOMAIN chats : chats[c] # "ended" /\ chats'[c] = "ended")
             => mcp_session' = "none"]_vars
    /\ [](history.ended /\ ~history.started_since => mcp_session = "none")
    /\ [][(MessageBegins /\ history.ended /\ ~history.started_since)
             => /\ sent' = <<"not_connected">>
                /\ pc' = "done"
                /\ UNCHANGED <<n_requests, tool_log, mcp_session>>]_vars

\* chat 1, whose on_chat_start had succeeded, was told "not connected" after
\* the on_chat_end of another chat, in which close raised
C30_Witness ==
    /\ chats # <<>>
    /\ chats[1] = "started"
    /\ \E c \in DOMAIN chats : chats[c] = "ended"
    /\ history.ended
    /\ ~history.started_since
    /\ history.close = "raised"
    /\ pc = "done"
    /\ sent = <<"not_connected">>

\* what an invocation returns when it runs alone on the catalog
ReturnedAlone(inv) ==
    LET query_lower == Lower(inv.query)
    IN  ReturnValue(SortedScoredTools(ToolScores(query_lower, Split(query_lower),
                                                 inv.order, SessionCatalog)),
                    SessionCatalog, inv.max_tools)

\* C21: invocations of filter_relevant_tools that run at the same time for
\* different chat sessions over the same cached catalog do not interfere: in
\* every interleaving each returns what it returns when it runs alone, and the
\* catalog stays as it is.
C21_NoInterference ==
    /\ invocations # <<>> => tools = SessionCatalog
    /\ \A s \in DOMAIN invocations :
           invocations[s].pc = "returned"
               => invocations[s].result = ReturnedAlone(invocations[s])

\* two invocations with different queries have returned different, non-empty
\* results after their loops overlapped
C21_Witness ==
    /\ invocations # <<>>
    /\ \A s \in Sessions : invocations[s].pc = "returned"
    /\ \A s \in Sessions : invocations[s].overlapped
    /\ invocations["a"].query # invocations["b"].query
    /\ invocations["a"].result # <<>>
    /\ invocations["b"].result # <<>>
    /\ invocations["a"].result # invocations["b"].result

\* C31, as stated: when the on_chat_start of chat 1 has returned without a
\* client (no API key, a timeout, or init_mcp_session returned None), every
\* on_message of chat 1 sends the not-connected message and makes no request
\* to the model API and no tool call, whatever the other chats did before the
\* on_chat_start of chat 1 began (the handlers of the other chats all returned
\* before it began, and none is under way).
C31_Original ==
    [][(MessageBegins /\ chats # <<>> /\ chats[1] = "unconnected"
           /\ ~history.started_later
           /\ \A c \in DOMAIN chats : chats[c] \notin {"connecting", "listing", "closing"})
          => /\ sent' = <<"not_connected">>
             /\ pc' = "done"
             /\ UNCHANGED <<n_requests, tool_log>>]_vars

\* C32, as stated: on_message sends "Operation completed ... finished
\* successfully" only when the last response of the model API asks for no tool
\* call; a message that reached the iteration limit with tool calls pending
\* never gets it.
C32_Original ==
    (app = "app2" /\ "completed" \in Range(sent))
        => /\ response.received
           /\ response.tool_calls = <<>>
           /\ "iteration_limit" \notin Range(sent)

\* the tool messages that follow message a of history h without a gap
ToolRun(h, a) ==
    LET stops == {m \in (a + 1)..Len(h) : h[m].role # "tool"} \cup {Len(h) + 1}
    IN  SubSeq(h, a + 1, (CHOOSE m \in stops : \A n \in stops : m <= n) - 1)

\* each assistant message with tool_calls is followed by exactly one tool
\* message per tool_call id, before any other message
WellFormed(h) ==
    \A a \in 1..Len(h) :
        (h[a].role = "assistant" /\ h[a].tool_calls # <<>>)
            => LET ids == h[a].tool_calls
                   run == ToolRun(h, a)
               IN  /\ Len(run) = Len(ids)
                   /\ \A j \in 1..Len(ids) :
                          Cardinality({m \in 1..Len(run) :
                                          run[m].tool_call_id = ids[j]}) = 1

\* C33, as stated: after every on_message of notes_app_chainlit, one that
\* ended in the error branch included, the message_history of the user session
\* is well-formed.
C33_Original ==
    (app = "notes_app" /\ pc = "done") => WellFormed(message_history)

\* main of notes_app_chainlit has received a response with tool calls
RoundBegins ==
    app = "notes_app" /\ pc = "awaiting" /\ iteration' = iteration + 1

\* the calls made for tool call id in the step, and its tool messages
TriedFor(id) ==
    SelectSeq(SubSeq(tool_log', Len(tool_log) + 1, Len(tool_log')),
              LAMBDA entry : entry.id = id)

ToolMessagesFor(id) ==
    SelectSeq(SubSeq(message_history', Len(message_history) + 1,
                     Len(message_history')),
              LAMBDA m : m.role = "tool" /\ m.tool_call_id = id)

\* C34, as stated: every tool call of a response is tried on the sessions of
\* mcp_sessions in their stored order until a call returns; no session is
\* called after that one, a session whose call raises is passed over, and when
\* no call returns the tool message is the not-found error; exactly one tool
\* message per tool call is appended.
C34_Original ==
    [][RoundBegins =>
          \A j \in 1..Len(response'.tool_calls) :
              LET id == response'.tool_calls[j]
                  tried == TriedFor(id)
                  told == ToolMessagesFor(id)
              IN  /\ Len(tried) <= Len(mcp_sessions)
                  /\ \A k \in 1..Len(tried) :
                         /\ tried[k].session = mcp_sessions[k].key
                         /\ k < Len(tried) => ~tried[k].ok
                  /\ Len(tried) < Len(mcp_sessions)
                         => (tried # <<>> /\ tried[Len(tried)].ok)
                  /\ Len(told) = 1
                  /\ told[1].error = (\A k \in 1..Len(tried) : ~tried[k].ok)]_vars

=============================================================================
